---------------------------- MODULE Spec2Model ----------------------------
(***************************************************************************)
(* Model of the annotation matchers of Phytoport's compare package:         *)
(*   compare/domains.py       find_common_domains, summarize_distances      *)
(*   compare/ps_sites.py      find_common_sites                             *)
(*   compare/msa_ps_sites.py  find_common_sites_msa                         *)
(*                                                                         *)
(* Python tuples are TLA+ tuples (d[1] in Python is d[2] here).  A Python   *)
(* list holds references: where the code keeps references to the entries   *)
(* of an input list (the buckets of by_name2) the model keeps the entry's  *)
(* list index, and reads the value through the input list.  Sets and the   *)
(* `in` operator of Python compare by value, and so do the sets here.      *)
(* Scores are fixed-point numbers (tenths).                                *)
(***************************************************************************)
EXTENDS Integers, Sequences, FiniteSets, TLC

\* ------------------------------------------------------------------ bounds
MaxDomainsA == 2
MaxDomainsB == 3
MaxCommon == 2
MaxPos == 2
MaxSites == 2
MaxMapped == 2
MaxAligned == 4
MaxFiltered == 3
MaxConverted == 3
MaxTsvSites == 2
MaxTsvDomains == 2
MaxUpids == 2
MaxPrefixes == 2
MaxPolls == 3
MaxRows == 3

\* ------------------------------------------------------------- input sets
Labels == {"Kinase", "SH2"}

\* Domain = (predictor, domain_name, start, end)
DomainPool ==
    { <<"tool1", "Kinase", 10, 50>>,
      <<"tool2", "Kinase", 12, 55>>,
      <<"tool2", "Kinase", 8, 60>>,
      <<"tool1", "Kinase", 100, 130>>,
      <<"tool2", "SH2", 100, 130>> }

\* raw site = (position, residue, score)
SitePool ==
    { <<5, "S", 3>>, <<5, "S", 9>>, <<5, "T", 9>>, <<6, "T", 9>>, <<3, "Y", 5>> }

\* mapped site = (msa_col, raw_pos, residue, score).  The first sequence is
\* aligned as "MK-TY" (raw 3 -> column 4, raw 4 -> column 5), the second as
\* "MKSTY" (raw n -> column n).
MappedPool1 ==
    { <<4, 3, "T", 9>>, <<4, 3, "T", 5>>, <<5, 4, "Y", 7>>, <<4, 3, "S", 6>> }
MappedPool2 ==
    { <<4, 4, "T", 8>>, <<4, 4, "T", 6>>, <<3, 3, "S", 9>>, <<5, 5, "Y", 7>> }

SeqsUpTo(S, n) == UNION {[1..k -> S] : k \in 0..n}

Intervals == {<<s, e>> \in (1..MaxPos) \X (1..MaxPos) : s <= e}

\* a paired common domain: (name, (s1, e1), (s2, e2), src1, src2)
MatchRecords ==
    {<<name, iv1, iv2, "tool1", "tool2">> :
        name \in Labels, iv1 \in Intervals, iv2 \in Intervals}

VARIABLES
    pc,               \* position in the running function
    domains1,         \* find_common_domains: first argument
    domains2,         \* find_common_domains: second argument
    sites1,           \* find_common_sites: first argument
    sites2,           \* find_common_sites: second argument
    mapped1,          \* find_common_sites_msa: first argument
    mapped2,          \* find_common_sites_msa: second argument
    by_name2,         \* insertion-ordered dict: name -> list of entries of domains2
    used_d2,          \* set of domain tuples of the second list already paired
    index2,           \* dict: (msa_col, residue) -> (raw_pos, score)
    matched_msa_keys, \* set of (msa_col, residue) keys matched so far
    i1,               \* loop position in the first list
    common,           \* the matcher's first result
    unique1,          \* the matcher's second result
    unique2,          \* the matcher's third result
    pairs,            \* history: for each element of common, <<index in list 1, index in list 2>>
    from1,            \* history: for each element of unique1, its index in list 1
    from2,            \* history: for each element of unique2, its index in list 2
    index2_from,      \* history: for each key of index2, the index in mapped2 its value was read from
    summary,          \* summarize_distances: name -> [dstart, dend]
    k                 \* summarize_distances: loop position in common

VARIABLES
    aligned_seq,      \* map_seq_to_msa_positions: the argument, a sequence of characters
    msa_idx,          \* map_seq_to_msa_positions: 1-based column of the loop
    raw_pos,          \* map_seq_to_msa_positions: raw position counter
    mapping,          \* map_seq_to_msa_positions: raw position -> column
    flt_in,           \* filter_sites_by_cutoff: sites
    cutoff,           \* filter_sites_by_cutoff, compare_phospho_sites: cutoff
    flt_out,          \* filter_sites_by_cutoff: the returned list
    flt_out2,         \* the list returned when flt_out is filtered again
    flt_copy,         \* the module whose filter_sites_by_cutoff was called
    conv_sites,       \* convert_sites_to_msa: sites
    pos_map,          \* convert_sites_to_msa: pos_map
    ci,               \* convert_sites_to_msa: loop position in sites
    converted         \* convert_sites_to_msa: the list being built

VARIABLES
    msa1,             \* compare_phospho_sites: msa[header1], a sequence of characters
    msa2,             \* compare_phospho_sites: msa[header2]
    pos_maps1,        \* compare_phospho_sites: pos_maps[header1]
    pos_maps2,        \* compare_phospho_sites: pos_maps[header2]
    site_dict1,       \* compare_phospho_sites: site_dict[header1]
    site_dict2,       \* compare_phospho_sites: site_dict[header2]
    raw_sites1,       \* compare_phospho_sites: raw_sites1
    raw_sites2,       \* compare_phospho_sites: raw_sites2
    error,            \* the exception compare_phospho_sites ended with ("none": none)
    written           \* save_to_tsv has written the output file

VARIABLES
    headers_len,      \* compare_domains, compare_phospho_sites: len(headers)
    files_read,       \* the input files opened so far
    domain_dict1,     \* compare_domains: the list of domain_dict for header1 (<<>>: no key)
    domain_dict2      \* compare_domains: the list of domain_dict for header2 (<<>>: no key)

VARIABLES
    unique2_obj,      \* find_common_sites: the list object unique2 is bound to
    call_no,          \* the matcher is in its first or its second call on the same lists
    first_result,     \* (common, unique1, unique2) as returned by the first call
    args0             \* history: the argument lists as they were passed to the first call

VARIABLES
    upids,            \* download_reference_proteome_for_upids: upids
    prefixes,         \* download_reference_proteome_for_upids: prefixes (None or a list)
    di,               \* download_reference_proteome_for_upids: enumerate index, from 1
    dl_calls,         \* history: the calls of download_gz_fasta, as <<upid, output_path>>
    files,            \* the paths that exist in the file system
    proteome_upid,    \* download_gz_fasta: proteome_upid
    output_path,      \* download_gz_fasta: output_path
    files_at_entry,   \* history: files when download_gz_fasta was entered
    http_in_call,     \* history: HTTP requests issued by the running call
    touched,          \* history: paths created, written or removed by the running call
    dl_outcome        \* history: how the last call of download_gz_fasta ended

VARIABLES
    poll_interval,    \* wait_for_results: poll_interval
    reply,            \* wait_for_results: the server's answer to the last request
    polls,            \* history: requests issued so far (counted up to MaxPolls)
    slept,            \* history: seconds slept so far (counted up to MaxPolls intervals)
    poll_result,      \* wait_for_results: the value returned (<<>>: none)
    poll_error        \* the exception wait_for_results ended with ("none": none)

VARIABLES
    file1,            \* submit_alignment: file1
    file2,            \* submit_alignment: file2
    method,           \* submit_alignment: method
    handles,          \* the file objects of the call that are open
    opened,           \* history: the file objects the call has opened
    response,         \* submit_alignment: response, as <<outcome, text>>
    ticket,           \* submit_alignment: the value returned ("": none)
    sub_error         \* the exception submit_alignment ended with ("none": none)

VARIABLES
    ext_copy,         \* which extract_sites runs: "raw" (ps_sites) or "msa" (msa_ps_sites)
    tsv_name,         \* extract_sites: os.path.basename(tsv_file)
    tsv_rows,         \* the rows csv.reader yields, each a tuple of strings
    ri,               \* extract_sites: index of the next row, from 1
    ext_results,      \* extract_sites: results
    ext_error         \* the exception extract_sites ended with ("none": none)

inVars == <<domains1, domains2, sites1, sites2, mapped1, mapped2>>
mapVars == <<aligned_seq, msa_idx, raw_pos, mapping>>
fltVars == <<flt_in, cutoff, flt_out, flt_out2, flt_copy>>
convVars == <<conv_sites, pos_map, ci, converted>>
cmpVars == <<msa1, msa2, pos_maps1, pos_maps2, site_dict1, site_dict2,
             raw_sites1, raw_sites2, error, written>>
entVars == <<headers_len, files_read, domain_dict1, domain_dict2>>
purVars == <<unique2_obj, call_no, first_result, args0>>
fetchVars == <<upids, prefixes, di, dl_calls, files, proteome_upid, output_path,
               files_at_entry, http_in_call, touched, dl_outcome>>
pollVars == <<poll_interval, reply, polls, slept, poll_result, poll_error>>
subVars == <<file1, file2, method, handles, opened, response, ticket, sub_error>>
rowVars == <<ext_copy, tsv_name, tsv_rows, ri, ext_results, ext_error>>
restVars == <<pollVars, subVars, rowVars>>
moreVars == <<entVars, purVars, fetchVars, restVars>>
auxVars == <<mapVars, fltVars, convVars, cmpVars, moreVars>>
domVars == <<by_name2, used_d2>>
msaVars == <<index2, matched_msa_keys, index2_from>>
outVars == <<i1, common, unique1, unique2, pairs, from1, from2>>
sumVars == <<summary, k>>
vars == <<pc, inVars, auxVars, domVars, msaVars, outVars, sumVars>>

\* ---------------------------------------------------------------- helpers
Abs(x) == IF x < 0 THEN -x ELSE x
Max(x, y) == IF x >= y THEN x ELSE y

Values(ds, idx) == [n \in 1..Len(idx) |-> ds[idx[n]]]

\* An insertion-ordered dict is a sequence of <<key, value>> pairs.
DictHas(d, key) == \E n \in 1..Len(d) : d[n][1] = key
DictPos(d, key) == CHOOSE n \in 1..Len(d) : d[n][1] = key
DictGet(d, key) == d[DictPos(d, key)][2]

\* by_name2[key].append(v) on a defaultdict(list)
DictAppend(d, key, v) ==
    IF DictHas(d, key)
    THEN [d EXCEPT ![DictPos(d, key)] = <<key, Append(@[2], v)>>]
    ELSE Append(d, <<key, <<v>>>>)

\* list.sort(key=...) is stable: the order of the indices 1..n of keys after
\* the sort (equal keys keep their relative order)
RECURSIVE SortedOrder(_, _)
SortedOrder(keys, n) ==
    IF n = 0 THEN <<>>
    ELSE LET prev == SortedOrder(keys, n - 1)
             p == Cardinality({m \in 1..Len(prev) : keys[prev[m]] <= keys[n]})
         IN SubSeq(prev, 1, p) \o <<n>> \o SubSeq(prev, p + 1, Len(prev))

\* lst.sort(key=lambda x: x[0])
FirstKeys(lst) == [n \in 1..Len(lst) |-> lst[n][1]]
SortOrder(lst) == SortedOrder(FirstKeys(lst), Len(lst))
SortByFirst(lst) == Values(lst, SortOrder(lst))

\* ------------------------------------------------- find_common_domains
\* for d in domains2: by_name2[d[1]].append(d)   (entries kept by reference)
RECURSIVE IndexByName(_, _)
IndexByName(ds2, n) ==
    IF n = 0 THEN <<>>
    ELSE DictAppend(IndexByName(ds2, n - 1), ds2[n][2], n)

\* mutant: the entries of every bucket, whatever the name
AllBuckets(d, name) ==
    LET RECURSIVE Cat(_)
        Cat(n) == IF n = 0 THEN <<>> ELSE Cat(n - 1) \o d[n][2]
    IN Cat(Len(d))

\* by_name2[name1]
Bucket(d, name) == DictGet(d, name)

\* mutant: only the first entry of the bucket is ever a candidate
HeadOfBucket(ds2, bucket, used) ==
    SelectSeq(bucket, LAMBDA j : ds2[j] \notin used /\ j = bucket[1])

\* [d2 for d2 in by_name2[name1] if d2 not in used_d2]
Candidates(ds2, bucket, used) ==
    SelectSeq(bucket, LAMBDA j : ds2[j] \notin used)

StartDistance(x, s1) == Abs(x[3] - s1)

\* min(candidates, key=lambda x: abs(x[2] - s1)): the first of the smallest
RECURSIVE NearestStart(_, _, _, _)
NearestStart(ds2, cands, s1, n) ==
    IF n = 1 THEN cands[1]
    ELSE LET best == NearestStart(ds2, cands, s1, n - 1)
         IN IF StartDistance(ds2[cands[n]], s1) < StartDistance(ds2[best], s1)
            THEN cands[n]
            ELSE best

\* [d for dlist in by_name2.values() for d in dlist if d not in used_d2]
RECURSIVE Unconsumed(_, _, _, _)
Unconsumed(ds2, d, used, n) ==
    IF n = 0 THEN <<>>
    ELSE Unconsumed(ds2, d, used, n - 1) \o Candidates(ds2, d[n][2], used)

IndexB ==
    /\ pc = "dom_index"
    /\ by_name2' = IndexByName(domains2, Len(domains2))
    /\ pc' = "dom_scan"
    /\ UNCHANGED <<inVars, auxVars, used_d2, msaVars, outVars, sumVars>>

\* if name1 not in by_name2: unique1.append(d1); continue
ScanNoBucket ==
    /\ pc = "dom_scan"
    /\ i1 <= Len(domains1)
    /\ ~DictHas(by_name2, domains1[i1][2])
    /\ unique1' = Append(unique1, domains1[i1])
    /\ from1' = Append(from1, i1)
    /\ i1' = i1 + 1
    /\ UNCHANGED <<pc, inVars, auxVars, domVars, msaVars, common, unique2, pairs, from2, sumVars>>

\* if not candidates: unique1.append(d1); continue
ScanNoCandidates ==
    /\ pc = "dom_scan"
    /\ i1 <= Len(domains1)
    /\ DictHas(by_name2, domains1[i1][2])
    /\ Candidates(domains2, Bucket(by_name2, domains1[i1][2]), used_d2) = <<>>
    /\ unique1' = Append(unique1, domains1[i1])
    /\ from1' = Append(from1, i1)
    /\ i1' = i1 + 1
    /\ UNCHANGED <<pc, inVars, auxVars, domVars, msaVars, common, unique2, pairs, from2, sumVars>>

\* d2 = min(...); used_d2.add(d2); common.append(...)
ScanMatch ==
    /\ pc = "dom_scan"
    /\ i1 <= Len(domains1)
    /\ DictHas(by_name2, domains1[i1][2])
    /\ LET d1 == domains1[i1]
           candidates == Candidates(domains2, Bucket(by_name2, d1[2]), used_d2)
       IN /\ candidates # <<>>
          /\ LET j == NearestStart(domains2, candidates, d1[3], Len(candidates))
                 d2 == domains2[j]
             IN /\ used_d2' = used_d2 \cup {d2}
                /\ common' = Append(common,
                       <<d1[2], <<d1[3], d1[4]>>, <<d2[3], d2[4]>>, d1[1], d2[1]>>)
                /\ pairs' = Append(pairs, <<i1, j>>)
    /\ i1' = i1 + 1
    /\ UNCHANGED <<pc, inVars, auxVars, by_name2, msaVars, unique1, unique2, from1, from2, sumVars>>

\* unique2 = [...]; return common, unique1, unique2
CollectUnique2 ==
    /\ pc = "dom_scan"
    /\ i1 > Len(domains1)
    /\ from2' = Unconsumed(domains2, by_name2, used_d2, Len(by_name2))
    /\ unique2' = Values(domains2, from2')
    /\ pc' = "sum_loop"
    /\ UNCHANGED <<inVars, auxVars, domVars, msaVars, i1, common, unique1, pairs, from1, sumVars>>

\* ------------------------------------------------- summarize_distances
\* mutant: the signed difference
SignedDelta(x, y) == x - y

\* abs(s1 - s2), abs(e1 - e2)
Delta(x, y) == Abs(x - y)

\* mutant: the differences of a name are added up
AccumulateSum(summ, rec) ==
    LET name == rec[1]
        cur == IF name \in DOMAIN summ THEN summ[name]
               ELSE [dstart |-> 0, dend |-> 0]
        ds == Delta(rec[2][1], rec[3][1])
        de == Delta(rec[2][2], rec[3][2])
    IN [x \in DOMAIN summ \cup {name} |->
           IF x = name
           THEN [dstart |-> cur.dstart + ds, dend |-> cur.dend + de]
           ELSE summ[x]]

\* one iteration of the loop over common; summary is a
\* defaultdict(lambda: {"Δstart": 0, "Δend": 0})
Accumulate(summ, rec) ==
    LET name == rec[1]
        cur == IF name \in DOMAIN summ THEN summ[name]
               ELSE [dstart |-> 0, dend |-> 0]
        ds == Delta(rec[2][1], rec[3][1])
        de == Delta(rec[2][2], rec[3][2])
    IN [x \in DOMAIN summ \cup {name} |->
           IF x = name
           THEN [dstart |-> Max(cur.dstart, ds), dend |-> Max(cur.dend, de)]
           ELSE summ[x]]

EmptySummary == [x \in {} |-> [dstart |-> 0, dend |-> 0]]

\* the whole function, on the first n records of cs
RECURSIVE SummarizeDistances(_, _)
SummarizeDistances(cs, n) ==
    IF n = 0 THEN EmptySummary
    ELSE Accumulate(SummarizeDistances(cs, n - 1), cs[n])

SummarizeRecord ==
    /\ pc = "sum_loop"
    /\ k <= Len(common)
    /\ summary' = Accumulate(summary, common[k])
    /\ k' = k + 1
    /\ UNCHANGED <<pc, inVars, auxVars, domVars, msaVars, outVars>>

SummarizeReturn ==
    /\ pc = "sum_loop"
    /\ k > Len(common)
    /\ pc' = "sum_done"
    /\ UNCHANGED <<inVars, auxVars, domVars, msaVars, outVars, sumVars>>

\* --------------------------------------------------- find_common_sites
\* mutant: the scan of sites2 does not stop at the first match
LastMatch(s2s, s1) ==
    LET hits == {j \in 1..Len(s2s) : s2s[j][1] = s1[1] /\ s2s[j][2] = s1[2]}
    IN IF hits = {} THEN 0 ELSE CHOOSE j \in hits : \A m \in hits : j >= m

\* the first s2 in sites2 with pos1 == pos2 and res1 == res2 (0: none)
FirstMatch(s2s, s1) ==
    LET hits == {j \in 1..Len(s2s) : s2s[j][1] = s1[1] /\ s2s[j][2] = s1[2]}
    IN IF hits = {} THEN 0 ELSE CHOOSE j \in hits : \A m \in hits : j <= m

\* position of the first element of lst equal to x (0: none)
FirstEqual(lst, x) ==
    LET hits == {n \in 1..Len(lst) : lst[n] = x}
    IN IF hits = {} THEN 0 ELSE CHOOSE n \in hits : \A m \in hits : n <= m

RemoveAt(lst, n) == SubSeq(lst, 1, n - 1) \o SubSeq(lst, n + 1, Len(lst))

\* common, unique1 = [], []; unique2 = sites2.copy()
\* mutant: unique2 = sites2, the argument itself
SameObject(obj) == obj

\* sites2.copy(): a new list object
CopyOf(obj) == "new"

\* the list sites2 after a change of the list unique2 is bound to
Sites2After(u2) == IF unique2_obj = "sites2" THEN u2 ELSE sites2

RawBegin ==
    /\ pc = "raw_begin"
    /\ common' = <<>> /\ unique1' = <<>>
    /\ unique2' = sites2
    /\ unique2_obj' = CopyOf("sites2")
    /\ from2' = [n \in 1..Len(sites2) |-> n]
    /\ pc' = "raw_scan"
    /\ UNCHANGED <<inVars, mapVars, fltVars, convVars, cmpVars, entVars, fetchVars, restVars,
                   call_no, first_result, args0, domVars, msaVars, i1, pairs, from1,
                   sumVars>>

\* common.append(...); if s2 in unique2: unique2.remove(s2); break
RawScanMatch ==
    /\ pc = "raw_scan"
    /\ i1 <= Len(sites1)
    /\ LET s1 == sites1[i1]
           j == FirstMatch(sites2, s1)
       IN /\ j # 0
          /\ common' = Append(common, <<s1[1], s1[2], s1[3], sites2[j][3]>>)
          /\ pairs' = Append(pairs, <<i1, j>>)
          /\ LET p == FirstEqual(unique2, sites2[j])
             IN IF p # 0
                THEN /\ unique2' = RemoveAt(unique2, p)
                     /\ from2' = RemoveAt(from2, p)
                     /\ sites2' = Sites2After(unique2')
                ELSE UNCHANGED <<unique2, from2, sites2>>
    /\ i1' = i1 + 1
    /\ UNCHANGED <<pc, domains1, domains2, sites1, mapped1, mapped2, auxVars, domVars,
                   msaVars, unique1, from1, sumVars>>

\* if not match_found: unique1.append((pos1, res1, score1))
RawScanNoMatch ==
    /\ pc = "raw_scan"
    /\ i1 <= Len(sites1)
    /\ FirstMatch(sites2, sites1[i1]) = 0
    /\ unique1' = Append(unique1, sites1[i1])
    /\ from1' = Append(from1, i1)
    /\ i1' = i1 + 1
    /\ UNCHANGED <<pc, inVars, auxVars, domVars, msaVars, common, unique2, pairs, from2, sumVars>>

\* for lst in (common, unique1, unique2): lst.sort(key=lambda x: x[0]); return
RawSortReturn ==
    /\ pc = "raw_scan"
    /\ i1 > Len(sites1)
    /\ common' = SortByFirst(common)
    /\ unique1' = SortByFirst(unique1)
    /\ unique2' = SortByFirst(unique2)
    /\ pairs' = Values(pairs, SortOrder(common))
    /\ from1' = Values(from1, SortOrder(unique1))
    /\ from2' = Values(from2, SortOrder(unique2))
    /\ sites2' = Sites2After(unique2')
    /\ pc' = "raw_done"
    /\ UNCHANGED <<domains1, domains2, sites1, mapped1, mapped2, auxVars, domVars,
                   msaVars, i1, sumVars>>

\* ----------------------------------------------- find_common_sites_msa
\* mutant: the residue is left out of the key
ColumnOnlyKey(s) == <<s[1], "">>

\* (msa_col, residue)
MsaKey(s) == <<s[1], s[3]>>

\* {(msa_col, residue): (raw_pos, score) for (...) in mapped2}: a later entry
\* with the same key replaces the earlier one
RECURSIVE BuildIndex2(_, _)
BuildIndex2(m2, n) ==
    IF n = 0 THEN [x \in {} |-> <<0, 0>>]
    ELSE LET prev == BuildIndex2(m2, n - 1)
         IN [x \in DOMAIN prev \cup {MsaKey(m2[n])} |->
                IF x = MsaKey(m2[n]) THEN <<m2[n][2], m2[n][4]>> ELSE prev[x]]

RECURSIVE BuildIndex2From(_, _)
BuildIndex2From(m2, n) ==
    IF n = 0 THEN [x \in {} |-> 0]
    ELSE LET prev == BuildIndex2From(m2, n - 1)
         IN [x \in DOMAIN prev \cup {MsaKey(m2[n])} |->
                IF x = MsaKey(m2[n]) THEN n ELSE prev[x]]

\* [s for s in mapped2 if (s[0], s[2]) not in matched_msa_keys], as indices
Unmatched(m2, matched) ==
    SelectSeq([n \in 1..Len(m2) |-> n], LAMBDA j : MsaKey(m2[j]) \notin matched)

MsaIndex ==
    /\ pc = "msa_index"
    /\ index2' = BuildIndex2(mapped2, Len(mapped2))
    /\ index2_from' = BuildIndex2From(mapped2, Len(mapped2))
    /\ pc' = "msa_scan"
    /\ UNCHANGED <<inVars, auxVars, domVars, matched_msa_keys, outVars, sumVars>>

\* if key in index2: common.append(...); matched_msa_keys.add(key)
MsaScanMatch ==
    /\ pc = "msa_scan"
    /\ i1 <= Len(mapped1)
    /\ LET s1 == mapped1[i1]
           key == MsaKey(s1)
       IN /\ key \in DOMAIN index2
          /\ common' = Append(common,
                 <<s1[1], s1[2], index2[key][1], s1[3], s1[4], index2[key][2]>>)
          /\ pairs' = Append(pairs, <<i1, index2_from[key]>>)
          /\ matched_msa_keys' = matched_msa_keys \cup {key}
    /\ i1' = i1 + 1
    /\ UNCHANGED <<pc, inVars, auxVars, domVars, index2, index2_from, unique1, unique2,
                   from1, from2, sumVars>>

\* else: unique1.append((msa_col, raw_pos1, residue1, score1))
MsaScanUnique ==
    /\ pc = "msa_scan"
    /\ i1 <= Len(mapped1)
    /\ MsaKey(mapped1[i1]) \notin DOMAIN index2
    /\ unique1' = Append(unique1, mapped1[i1])
    /\ from1' = Append(from1, i1)
    /\ i1' = i1 + 1
    /\ UNCHANGED <<pc, inVars, auxVars, domVars, msaVars, common, unique2, pairs, from2, sumVars>>

\* unique2 = [...]; the three sorts; return common, unique1, unique2
MsaSortReturn ==
    /\ pc = "msa_scan"
    /\ i1 > Len(mapped1)
    /\ LET u2 == Unmatched(mapped2, matched_msa_keys)
           order2 == SortOrder(Values(mapped2, u2))
       IN /\ from2' = Values(u2, order2)
          /\ unique2' = Values(mapped2, from2')
    /\ common' = SortByFirst(common)
    /\ unique1' = SortByFirst(unique1)
    /\ pairs' = Values(pairs, SortOrder(common))
    /\ from1' = Values(from1, SortOrder(unique1))
    /\ pc' = "msa_done"
    /\ UNCHANGED <<inVars, auxVars, domVars, msaVars, i1, sumVars>>

\* the loop over mapped1, on its first n entries
RECURSIVE ScanMapped(_, _, _)
ScanMapped(m1, idx2, n) ==
    IF n = 0 THEN [common |-> <<>>, unique1 |-> <<>>, matched |-> {}]
    ELSE LET prev == ScanMapped(m1, idx2, n - 1)
             s1 == m1[n]
             key == MsaKey(s1)
         IN IF key \in DOMAIN idx2
            THEN [prev EXCEPT
                    !.common = Append(@, <<s1[1], s1[2], idx2[key][1],
                                           s1[3], s1[4], idx2[key][2]>>),
                    !.matched = @ \cup {key}]
            ELSE [prev EXCEPT !.unique1 = Append(@, s1)]

\* the whole function: (common, unique1, unique2)
FindCommonSitesMsa(m1, m2) ==
    LET scan == ScanMapped(m1, BuildIndex2(m2, Len(m2)), Len(m1))
    IN <<SortByFirst(scan.common),
         SortByFirst(scan.unique1),
         SortByFirst(Values(m2, Unmatched(m2, scan.matched)))>>

\* ------------------------------------------- map_seq_to_msa_positions
\* characters an aligned sequence is drawn from
AlignChars == {"M", "-", ".", "*"}

EmptyMap == [x \in {} |-> 0]

\* mutant: only '-' is a gap
IsDash(aa) == aa = "-"

\* aa in ("-", ".")
IsGap(aa) == aa \in {"-", "."}

\* mutant: enumerate without start=1
MapCharZeroBased(st, aa, idx) ==
    IF IsGap(aa) THEN st
    ELSE [raw_pos |-> st.raw_pos + 1,
          mapping |-> [x \in DOMAIN st.mapping \cup {st.raw_pos + 1} |->
                          IF x = st.raw_pos + 1 THEN idx - 1 ELSE st.mapping[x]]]

\* one iteration of the loop: if aa not in ("-", "."): raw_pos += 1;
\* mapping[raw_pos] = msa_idx
MapChar(st, aa, idx) ==
    IF IsGap(aa) THEN st
    ELSE [raw_pos |-> st.raw_pos + 1,
          mapping |-> [x \in DOMAIN st.mapping \cup {st.raw_pos + 1} |->
                          IF x = st.raw_pos + 1 THEN idx ELSE st.mapping[x]]]

RECURSIVE MapPrefix(_, _)
MapPrefix(s, n) ==
    IF n = 0 THEN [raw_pos |-> 0, mapping |-> EmptyMap]
    ELSE MapChar(MapPrefix(s, n - 1), s[n], n)

\* the whole function
MapSeqToMsaPositions(s) == MapPrefix(s, Len(s)).mapping

\* a gap character: the loop goes on
MapSkipGap ==
    /\ pc = "map_loop"
    /\ msa_idx <= Len(aligned_seq)
    /\ IsGap(aligned_seq[msa_idx])
    /\ msa_idx' = msa_idx + 1
    /\ UNCHANGED <<pc, inVars, aligned_seq, raw_pos, mapping, fltVars, convVars, cmpVars, moreVars,
                   domVars, msaVars, outVars, sumVars>>

\* raw_pos += 1; mapping[raw_pos] = msa_idx
MapRecord ==
    /\ pc = "map_loop"
    /\ msa_idx <= Len(aligned_seq)
    /\ ~IsGap(aligned_seq[msa_idx])
    /\ LET st == MapChar([raw_pos |-> raw_pos, mapping |-> mapping],
                         aligned_seq[msa_idx], msa_idx)
       IN raw_pos' = st.raw_pos /\ mapping' = st.mapping
    /\ msa_idx' = msa_idx + 1
    /\ UNCHANGED <<pc, inVars, aligned_seq, fltVars, convVars, cmpVars, moreVars,
                   domVars, msaVars, outVars, sumVars>>

\* return mapping
MapReturn ==
    /\ pc = "map_loop"
    /\ msa_idx > Len(aligned_seq)
    /\ pc' = "map_done"
    /\ UNCHANGED <<inVars, auxVars, domVars, msaVars, outVars, sumVars>>

\* ---------------------------------------------- filter_sites_by_cutoff
\* cutoffs, in tenths like the scores
Cutoffs == {0, 5, 9, 10}

\* mutant: a score equal to the cutoff is dropped
ScoreAbove(s, c) == s[3] > c

\* ps_sites.py: s[2] >= cutoff
ScoreKept(s, c) == s[3] >= c

\* ps_sites.py: [s for s in sites if s[2] >= cutoff]
FilterSitesByCutoff(sites, c) == SelectSeq(sites, LAMBDA s : ScoreKept(s, c))

\* mutant: sites below the cutoff are removed from the list while it is
\* iterated, so the entry after a removed one is skipped
FilterRemovingInPlace(sites, c) ==
    LET RECURSIVE Walk(_, _)
        Walk(lst, n) ==
            IF n > Len(lst) THEN lst
            ELSE IF lst[n][3] >= c THEN Walk(lst, n + 1)
            ELSE Walk(SubSeq(lst, 1, n - 1) \o SubSeq(lst, n + 1, Len(lst)), n + 1)
    IN Walk(sites, 1)

\* msa_ps_sites.py: [s for s in sites if s[2] >= cutoff]
FilterSitesByCutoffMsa(sites, c) == SelectSeq(sites, LAMBDA s : s[3] >= c)

FilterRaw ==
    /\ pc = "flt_call"
    /\ flt_out' = FilterSitesByCutoff(flt_in, cutoff)
    /\ flt_copy' = "ps_sites"
    /\ pc' = "flt_once"
    /\ UNCHANGED <<inVars, mapVars, flt_in, cutoff, flt_out2, convVars, cmpVars, moreVars,
                   domVars, msaVars, outVars, sumVars>>

FilterMsa ==
    /\ pc = "flt_call"
    /\ flt_out' = FilterSitesByCutoffMsa(flt_in, cutoff)
    /\ flt_copy' = "msa_ps_sites"
    /\ pc' = "flt_once"
    /\ UNCHANGED <<inVars, mapVars, flt_in, cutoff, flt_out2, convVars, cmpVars, moreVars,
                   domVars, msaVars, outVars, sumVars>>

\* the returned list is filtered once more with the same cutoff
FilterRawAgain ==
    /\ pc = "flt_once"
    /\ flt_copy = "ps_sites"
    /\ flt_out2' = FilterSitesByCutoff(flt_out, cutoff)
    /\ pc' = "flt_twice"
    /\ UNCHANGED <<inVars, mapVars, flt_in, cutoff, flt_out, flt_copy, convVars, cmpVars, moreVars,
                   domVars, msaVars, outVars, sumVars>>

FilterMsaAgain ==
    /\ pc = "flt_once"
    /\ flt_copy = "msa_ps_sites"
    /\ flt_out2' = FilterSitesByCutoffMsa(flt_out, cutoff)
    /\ pc' = "flt_twice"
    /\ UNCHANGED <<inVars, mapVars, flt_in, cutoff, flt_out, flt_copy, convVars, cmpVars, moreVars,
                   domVars, msaVars, outVars, sumVars>>

\* ------------------------------------------------ convert_sites_to_msa
\* aligned sequences of the alignment file: "MK-TY", "MKSTY" and a row of gaps
AlignedPool ==
    { <<"M", "K", "-", "T", "Y">>, <<"M", "K", "S", "T", "Y">>, <<"-", ".", "-">> }

\* mutant: pos_map.get(raw_pos, raw_pos), a site without a column is kept
ConvertSiteKeepingAll(conv, s, pm) ==
    IF s[1] \notin DOMAIN pm THEN Append(conv, <<s[1], s[1], s[2], s[3]>>)
    ELSE Append(conv, <<pm[s[1]], s[1], s[2], s[3]>>)

\* one iteration of the loop: msa_col = pos_map.get(raw_pos); if msa_col is
\* None: continue; converted.append((msa_col, raw_pos, residue, score))
ConvertSite(conv, s, pm) ==
    IF s[1] \notin DOMAIN pm THEN conv
    ELSE Append(conv, <<pm[s[1]], s[1], s[2], s[3]>>)

RECURSIVE ConvertPrefix(_, _, _)
ConvertPrefix(sites, pm, n) ==
    IF n = 0 THEN <<>>
    ELSE ConvertSite(ConvertPrefix(sites, pm, n - 1), sites[n], pm)

\* the whole function
ConvertSitesToMsa(sites, pm) == ConvertPrefix(sites, pm, Len(sites))

\* the site has a column: it is appended
ConvertKeep ==
    /\ pc = "conv_loop"
    /\ ci <= Len(conv_sites)
    /\ conv_sites[ci][1] \in DOMAIN pos_map
    /\ converted' = ConvertSite(converted, conv_sites[ci], pos_map)
    /\ ci' = ci + 1
    /\ UNCHANGED <<pc, inVars, mapVars, fltVars, conv_sites, pos_map, cmpVars, moreVars,
                   domVars, msaVars, outVars, sumVars>>

\* the site has no column: it is skipped
ConvertDrop ==
    /\ pc = "conv_loop"
    /\ ci <= Len(conv_sites)
    /\ conv_sites[ci][1] \notin DOMAIN pos_map
    /\ converted' = ConvertSite(converted, conv_sites[ci], pos_map)
    /\ ci' = ci + 1
    /\ UNCHANGED <<pc, inVars, mapVars, fltVars, conv_sites, pos_map, cmpVars, moreVars,
                   domVars, msaVars, outVars, sumVars>>

\* return converted
ConvertReturn ==
    /\ pc = "conv_loop"
    /\ ci > Len(conv_sites)
    /\ pc' = "conv_done"
    /\ UNCHANGED <<inVars, auxVars, domVars, msaVars, outVars, sumVars>>

\* ---------------------------------- msa_ps_sites.compare_phospho_sites
\* the sites a TSV file can hold for one header
TsvSitePool == {<<5, "S", 3>>, <<3, "Y", 5>>, <<6, "T", 9>>}

NoSitesInTsvError ==
    "ValueError: No phosphorylation sites found for either header in the TSV."
NoSitesRemainError ==
    "ValueError: After mapping to the MSA and applying the cutoff no sites remain."

\* mutant: the two mapped lists are never found empty
NeverEmpty(m1, m2) == FALSE

\* not mapped1 and not mapped2
NoSitesRemain(m1, m2) == m1 = <<>> /\ m2 = <<>>

cmpRest == <<domains1, domains2, sites1, sites2, mapVars, fltVars, convVars,
             domVars, msaVars, outVars, sumVars>>

\* pos_maps = {h: map_seq_to_msa_positions(msa[h]) for h in headers}
CmpPosMaps ==
    /\ pc = "cmp_maps"
    /\ pos_maps1' = MapSeqToMsaPositions(msa1)
    /\ pos_maps2' = MapSeqToMsaPositions(msa2)
    /\ pc' = "cmp_extract"
    /\ UNCHANGED <<cmpRest, moreVars, mapped1, mapped2, msa1, msa2, site_dict1, site_dict2,
                   raw_sites1, raw_sites2, error, written>>

\* site_dict = extract_sites(tsv_file, headers), some site found
CmpExtract ==
    /\ pc = "cmp_extract"
    /\ \E sd1 \in SeqsUpTo(TsvSitePool, MaxTsvSites),
          sd2 \in SeqsUpTo(TsvSitePool, MaxTsvSites) :
          /\ ~(sd1 = <<>> /\ sd2 = <<>>)
          /\ site_dict1' = sd1
          /\ site_dict2' = sd2
    /\ files_read' = files_read \cup {"tsv"}
    /\ pc' = "cmp_filter"
    /\ UNCHANGED <<cmpRest, headers_len, domain_dict1, domain_dict2, purVars, fetchVars, restVars, mapped1, mapped2, msa1, msa2, pos_maps1, pos_maps2,
                   raw_sites1, raw_sites2, error, written>>

\* site_dict = extract_sites(tsv_file, headers), no site found for either
\* header: raise ValueError
CmpExtractRaise ==
    /\ pc = "cmp_extract"
    /\ site_dict1' = <<>>
    /\ site_dict2' = <<>>
    /\ error' = NoSitesInTsvError
    /\ files_read' = files_read \cup {"tsv"}
    /\ pc' = "cmp_error"
    /\ UNCHANGED <<cmpRest, headers_len, domain_dict1, domain_dict2, purVars, fetchVars, restVars, mapped1, mapped2, msa1, msa2, pos_maps1, pos_maps2,
                   raw_sites1, raw_sites2, written>>

\* raw_sites1 = filter_sites_by_cutoff(...); raw_sites2 = ...
CmpFilter ==
    /\ pc = "cmp_filter"
    /\ raw_sites1' = FilterSitesByCutoffMsa(site_dict1, cutoff)
    /\ raw_sites2' = FilterSitesByCutoffMsa(site_dict2, cutoff)
    /\ pc' = "cmp_convert"
    /\ UNCHANGED <<cmpRest, moreVars, mapped1, mapped2, msa1, msa2, pos_maps1, pos_maps2,
                   site_dict1, site_dict2, error, written>>

\* mapped1 = convert_sites_to_msa(raw_sites1, pos_maps[header1]); mapped2 = ...
CmpConvert ==
    /\ pc = "cmp_convert"
    /\ mapped1' = ConvertSitesToMsa(raw_sites1, pos_maps1)
    /\ mapped2' = ConvertSitesToMsa(raw_sites2, pos_maps2)
    /\ pc' = "cmp_check"
    /\ UNCHANGED <<cmpRest, moreVars, cmpVars>>

\* if not mapped1 and not mapped2: raise ValueError
CmpNoSitesRaise ==
    /\ pc = "cmp_check"
    /\ NoSitesRemain(mapped1, mapped2)
    /\ error' = NoSitesRemainError
    /\ pc' = "cmp_error"
    /\ UNCHANGED <<cmpRest, moreVars, mapped1, mapped2, msa1, msa2, pos_maps1, pos_maps2,
                   site_dict1, site_dict2, raw_sites1, raw_sites2, written>>

\* common, unique1, unique2 = find_common_sites_msa(mapped1, mapped2): the call
CmpMatch ==
    /\ pc = "cmp_check"
    /\ ~NoSitesRemain(mapped1, mapped2)
    /\ pc' = "msa_index"
    /\ UNCHANGED <<cmpRest, moreVars, mapped1, mapped2, cmpVars>>

\* save_to_tsv(output_file, header1, header2, common, unique1, unique2)
CmpSave ==
    /\ pc = "msa_done"
    /\ written' = TRUE
    /\ pc' = "cmp_saved"
    /\ UNCHANGED <<cmpRest, moreVars, mapped1, mapped2, msa1, msa2, pos_maps1, pos_maps2,
                   site_dict1, site_dict2, raw_sites1, raw_sites2, error>>

\* ------------------------------------ ps_sites.compare_phospho_sites
HeaderCounts == {1, 2, 3}

TwoHeadersError == "ValueError: exactly two sequence headers"
NoSitesFoundError == "ValueError: No phosphorylation sites found for: headers"

\* mutant: only a list that is too short is refused
FewerThanTwo(n) == n < 2

\* len(headers) != 2
NotTwoHeaders(n) == n # 2

rawCmpRest == <<domains1, domains2, mapped1, mapped2, mapVars, fltVars, convVars,
                msa1, msa2, pos_maps1, pos_maps2, raw_sites1, raw_sites2,
                domain_dict1, domain_dict2, purVars, fetchVars, restVars, domVars, msaVars,
                outVars, sumVars>>

\* if len(headers) != 2: raise ValueError
RawCmpHeadersRaise ==
    /\ pc = "rawcmp_entry"
    /\ NotTwoHeaders(headers_len)
    /\ error' = TwoHeadersError
    /\ pc' = "rawcmp_error"
    /\ UNCHANGED <<rawCmpRest, sites1, sites2, site_dict1, site_dict2, written,
                   headers_len, files_read>>

RawCmpHeadersOk ==
    /\ pc = "rawcmp_entry"
    /\ ~NotTwoHeaders(headers_len)
    /\ pc' = "rawcmp_extract"
    /\ UNCHANGED <<rawCmpRest, sites1, sites2, site_dict1, site_dict2, written,
                   error, headers_len, files_read>>

\* site_dict = extract_sites(tsv_file, headers), some site found
RawCmpExtract ==
    /\ pc = "rawcmp_extract"
    /\ \E sd1 \in SeqsUpTo(TsvSitePool, MaxTsvSites),
          sd2 \in SeqsUpTo(TsvSitePool, MaxTsvSites) :
          /\ ~(sd1 = <<>> /\ sd2 = <<>>)
          /\ site_dict1' = sd1
          /\ site_dict2' = sd2
    /\ files_read' = files_read \cup {"tsv"}
    /\ pc' = "rawcmp_filter"
    /\ UNCHANGED <<rawCmpRest, sites1, sites2, written, error, headers_len>>

\* extract_sites: if not results: raise ValueError
RawCmpExtractRaise ==
    /\ pc = "rawcmp_extract"
    /\ files_read' = files_read \cup {"tsv"}
    /\ error' = NoSitesFoundError
    /\ pc' = "rawcmp_error"
    /\ UNCHANGED <<rawCmpRest, sites1, sites2, site_dict1, site_dict2, written,
                   headers_len>>

\* sites1 = filter_sites_by_cutoff(...); sites2 = ...; the call of
\* find_common_sites(sites1, sites2)
RawCmpFilter ==
    /\ pc = "rawcmp_filter"
    /\ sites1' = FilterSitesByCutoff(site_dict1, cutoff)
    /\ sites2' = FilterSitesByCutoff(site_dict2, cutoff)
    /\ pc' = "raw_begin"
    /\ UNCHANGED <<rawCmpRest, site_dict1, site_dict2, written, error,
                   headers_len, files_read>>

\* save_to_tsv(output_file, header1, header2, common, unique1, unique2)
RawCmpSave ==
    /\ pc = "raw_done"
    /\ written' = TRUE
    /\ pc' = "rawcmp_saved"
    /\ UNCHANGED <<rawCmpRest, sites1, sites2, site_dict1, site_dict2, error,
                   headers_len, files_read>>

\* ----------------------------------------------------- compare_domains
\* the domains a TSV file can hold for one header
TsvDomainPool ==
    { <<"tool1", "Kinase", 10, 50>>,
      <<"tool2", "Kinase", 12, 55>>,
      <<"tool2", "SH2", 100, 130>> }

NoDomainsFoundError == "ValueError: No domains found for headers"

domCmpRest == <<sites1, sites2, mapped1, mapped2, mapVars, fltVars, convVars,
                msa1, msa2, pos_maps1, pos_maps2, site_dict1, site_dict2,
                raw_sites1, raw_sites2, purVars, fetchVars, restVars, domVars, msaVars, outVars,
                sumVars>>

\* if len(headers) != 2: raise ValueError
DomCmpHeadersRaise ==
    /\ pc = "domcmp_entry"
    /\ NotTwoHeaders(headers_len)
    /\ error' = TwoHeadersError
    /\ pc' = "domcmp_error"
    /\ UNCHANGED <<domCmpRest, domains1, domains2, written, entVars>>

DomCmpHeadersOk ==
    /\ pc = "domcmp_entry"
    /\ ~NotTwoHeaders(headers_len)
    /\ pc' = "domcmp_extract"
    /\ UNCHANGED <<domCmpRest, domains1, domains2, written, error, entVars>>

\* domain_dict = extract_headers(tsv_file, headers), some domain found
DomCmpExtract ==
    /\ pc = "domcmp_extract"
    /\ \E dd1 \in SeqsUpTo(TsvDomainPool, MaxTsvDomains),
          dd2 \in SeqsUpTo(TsvDomainPool, MaxTsvDomains) :
          /\ ~(dd1 = <<>> /\ dd2 = <<>>)
          /\ domain_dict1' = dd1
          /\ domain_dict2' = dd2
    /\ files_read' = files_read \cup {"tsv"}
    /\ pc' = "domcmp_get"
    /\ UNCHANGED <<domCmpRest, domains1, domains2, written, error, headers_len>>

\* extract_headers: if not results: raise ValueError
DomCmpExtractRaise ==
    /\ pc = "domcmp_extract"
    /\ files_read' = files_read \cup {"tsv"}
    /\ error' = NoDomainsFoundError
    /\ pc' = "domcmp_error"
    /\ UNCHANGED <<domCmpRest, domains1, domains2, written, headers_len,
                   domain_dict1, domain_dict2>>

\* domains1 = domain_dict.get(header1, []); domains2 = ...; the call of
\* find_common_domains(domains1, domains2)
DomCmpGet ==
    /\ pc = "domcmp_get"
    /\ domains1' = domain_dict1
    /\ domains2' = domain_dict2
    /\ pc' = "dom_index"
    /\ UNCHANGED <<domCmpRest, written, error, entVars>>

\* save_to_tsv(output_file, header1, header2, common, only1, only2, summary)
DomCmpSave ==
    /\ pc = "sum_done"
    /\ written' = TRUE
    /\ pc' = "domcmp_saved"
    /\ UNCHANGED <<domCmpRest, domains1, domains2, error, entVars>>

\* ------------------------- msa_ps_sites.compare_phospho_sites, its entry
HeadersNotInMsaError == "ValueError: The following headers were not found in the MSA"

\* if len(headers) != 2: raise ValueError
CmpHeadersRaise ==
    /\ pc = "cmp_entry"
    /\ NotTwoHeaders(headers_len)
    /\ error' = TwoHeadersError
    /\ pc' = "cmp_error"
    /\ UNCHANGED <<cmpRest, moreVars, mapped1, mapped2, msa1, msa2, pos_maps1,
                   pos_maps2, site_dict1, site_dict2, raw_sites1, raw_sites2, written>>

CmpHeadersOk ==
    /\ pc = "cmp_entry"
    /\ ~NotTwoHeaders(headers_len)
    /\ pc' = "cmp_parse"
    /\ UNCHANGED <<cmpRest, moreVars, mapped1, mapped2, cmpVars>>

\* msa = parse_fasta(msa_file), both headers found
CmpParse ==
    /\ pc = "cmp_parse"
    /\ \E s1 \in AlignedPool, s2 \in AlignedPool :
          /\ msa1' = s1
          /\ msa2' = s2
    /\ files_read' = files_read \cup {"msa"}
    /\ pc' = "cmp_maps"
    /\ UNCHANGED <<cmpRest, headers_len, domain_dict1, domain_dict2, purVars, fetchVars, restVars, mapped1, mapped2,
                   pos_maps1, pos_maps2, site_dict1, site_dict2, raw_sites1,
                   raw_sites2, error, written>>

\* msa = parse_fasta(msa_file); if missing: raise ValueError
CmpParseMissing ==
    /\ pc = "cmp_parse"
    /\ files_read' = files_read \cup {"msa"}
    /\ error' = HeadersNotInMsaError
    /\ pc' = "cmp_error"
    /\ UNCHANGED <<cmpRest, headers_len, domain_dict1, domain_dict2, purVars, fetchVars, restVars, mapped1, mapped2,
                   msa1, msa2, pos_maps1, pos_maps2, site_dict1, site_dict2,
                   raw_sites1, raw_sites2, written>>

\* ------------------------------------- a matcher called a second time
MatcherReturned == pc \in {"sum_loop", "raw_done", "msa_done"}

\* the same two lists are passed to the matcher that has just returned; the
\* call starts with new locals
CallAgain ==
    /\ MatcherReturned
    /\ call_no = 1
    /\ first_result' = <<common, unique1, unique2>>
    /\ call_no' = 2
    /\ pc' = CASE pc = "sum_loop" -> "dom_index"
               [] pc = "raw_done" -> "raw_begin"
               [] pc = "msa_done" -> "msa_index"
    /\ by_name2' = <<>> /\ used_d2' = {}
    /\ index2' = [x \in {} |-> <<0, 0>>] /\ matched_msa_keys' = {}
    /\ index2_from' = [x \in {} |-> 0]
    /\ i1' = 1 /\ common' = <<>> /\ unique1' = <<>> /\ unique2' = <<>>
    /\ pairs' = <<>> /\ from1' = <<>> /\ from2' = <<>>
    /\ unique2_obj' = "none"
    /\ UNCHANGED <<inVars, mapVars, fltVars, convVars, cmpVars, entVars, fetchVars, restVars,
                   args0, sumVars>>

\* ------------------------------------------------- fetch/proteomes.py
UpidPool == {"UP000006548", "UP000005640"}
PrefixPool == {"Arabidopsis", "Yeast"}
OutputDir == "."

\* prefixes[i] if prefixes and i < len(prefixes) else upid   (i from 1 here)
\* the optional argument is None or holds one list
None == {}
Some(list) == {list}
Given(opt) == CHOOSE list \in opt : TRUE

PrefixFor(pfx, i, upid) ==
    IF pfx # None /\ Given(pfx) # <<>> /\ i <= Len(Given(pfx))
    THEN Given(pfx)[i] ELSE upid

\* os.path.join(output_dir, f"{prefix}_proteome.fasta"), as its parts
OutputPath(dir, prefix) == <<dir, prefix, "_proteome.fasta">>

\* output_path + ".gz"
GzPath(path) == Append(path, ".gz")

\* mutant: the output file is never found
NeverExists(fs, path) == FALSE

\* os.path.exists(output_path)
PathExists(fs, path) == path \in fs

\* for i, upid in enumerate(upids): ...; download_gz_fasta(upid, output_path)
DlCall ==
    /\ pc = "dl_loop"
    /\ di <= Len(upids)
    /\ LET upid == upids[di]
           path == OutputPath(OutputDir, PrefixFor(prefixes, di, upid))
       IN /\ dl_calls' = Append(dl_calls, <<upid, path>>)
          /\ proteome_upid' = upid
          /\ output_path' = path
    /\ files_at_entry' = files
    /\ http_in_call' = 0
    /\ touched' = {}
    /\ dl_outcome' = "running"
    /\ pc' = "gz_entry"
    /\ UNCHANGED <<inVars, mapVars, fltVars, convVars, cmpVars, entVars, purVars, restVars,
                   domVars, msaVars, outVars, sumVars, upids, prefixes, di, files>>

\* the loop is exhausted
DlReturn ==
    /\ pc = "dl_loop"
    /\ di > Len(upids)
    /\ pc' = "dl_done"
    /\ UNCHANGED <<inVars, auxVars, domVars, msaVars, outVars, sumVars>>

\* download_gz_fasta returns to the loop; outcome is the message it printed
\* ("skipped", "saved") or the exception its handlers caught
GzBack(outcome) ==
    /\ dl_outcome' = outcome
    /\ di' = di + 1
    /\ pc' = "dl_loop"

\* if os.path.exists(output_path): return
GzSkip ==
    /\ pc = "gz_entry"
    /\ PathExists(files, output_path)
    /\ GzBack("skipped")
    /\ UNCHANGED <<inVars, mapVars, fltVars, convVars, cmpVars, entVars, purVars, restVars,
                   domVars, msaVars, outVars, sumVars, upids, prefixes, dl_calls, files,
                   proteome_upid, output_path, files_at_entry, http_in_call, touched>>

\* requests.get(url, stream=True); r.raise_for_status()
GzGet ==
    /\ pc = "gz_entry"
    /\ ~PathExists(files, output_path)
    /\ http_in_call' = http_in_call + 1
    /\ pc' = "gz_write"
    /\ UNCHANGED <<inVars, mapVars, fltVars, convVars, cmpVars, entVars, purVars, restVars,
                   domVars, msaVars, outVars, sumVars, upids, prefixes, di, dl_calls,
                   files, proteome_upid, output_path, files_at_entry, touched,
                   dl_outcome>>

\* requests.get or raise_for_status raises: except requests.RequestException
GzGetFail ==
    /\ pc = "gz_entry"
    /\ ~PathExists(files, output_path)
    /\ http_in_call' = http_in_call + 1
    /\ GzBack("request_error")
    /\ UNCHANGED <<inVars, mapVars, fltVars, convVars, cmpVars, entVars, purVars, restVars,
                   domVars, msaVars, outVars, sumVars, upids, prefixes, dl_calls, files,
                   proteome_upid, output_path, files_at_entry, touched>>

\* with open(gz_path, "wb") as f: for chunk in r.iter_content(1024): f.write(chunk)
GzWrite ==
    /\ pc = "gz_write"
    /\ files' = files \cup {GzPath(output_path)}
    /\ touched' = touched \cup {GzPath(output_path)}
    /\ pc' = "gz_extract"
    /\ UNCHANGED <<inVars, mapVars, fltVars, convVars, cmpVars, entVars, purVars, restVars,
                   domVars, msaVars, outVars, sumVars, upids, prefixes, di, dl_calls,
                   proteome_upid, output_path, files_at_entry, http_in_call,
                   dl_outcome>>

\* open(gz_path, "wb") raises OSError (nothing created), or the stream
\* (a RequestException) or a write (an OSError) breaks after the file was created
GzWriteFail ==
    /\ pc = "gz_write"
    /\ \E created \in BOOLEAN :
          /\ files' = IF created THEN files \cup {GzPath(output_path)} ELSE files
          /\ touched' = IF created THEN touched \cup {GzPath(output_path)} ELSE touched
          /\ \E e \in IF created THEN {"request_error", "os_error_write"}
                                  ELSE {"os_error_write"} : GzBack(e)
    /\ UNCHANGED <<inVars, mapVars, fltVars, convVars, cmpVars, entVars, purVars, restVars,
                   domVars, msaVars, outVars, sumVars, upids, prefixes, dl_calls,
                   proteome_upid, output_path, files_at_entry, http_in_call>>

\* with gzip.open(gz_path, "rb") as f_in, open(output_path, "wb") as f_out:
\*     shutil.copyfileobj(f_in, f_out)
GzExtract ==
    /\ pc = "gz_extract"
    /\ files' = files \cup {output_path}
    /\ touched' = touched \cup {output_path}
    /\ pc' = "gz_remove"
    /\ UNCHANGED <<inVars, mapVars, fltVars, convVars, cmpVars, entVars, purVars, restVars,
                   domVars, msaVars, outVars, sumVars, upids, prefixes, di, dl_calls,
                   proteome_upid, output_path, files_at_entry, http_in_call,
                   dl_outcome>>

\* the extraction raises OSError, before or after output_path was created
GzExtractFail ==
    /\ pc = "gz_extract"
    /\ \E created \in BOOLEAN :
          /\ files' = IF created THEN files \cup {output_path} ELSE files
          /\ touched' = IF created THEN touched \cup {output_path} ELSE touched
    /\ GzBack("os_error_extract")
    /\ UNCHANGED <<inVars, mapVars, fltVars, convVars, cmpVars, entVars, purVars, restVars,
                   domVars, msaVars, outVars, sumVars, upids, prefixes, dl_calls,
                   proteome_upid, output_path, files_at_entry, http_in_call>>

\* os.remove(gz_path)
GzRemove ==
    /\ pc = "gz_remove"
    /\ files' = files \ {GzPath(output_path)}
    /\ touched' = touched \cup {GzPath(output_path)}
    /\ GzBack("saved")
    /\ UNCHANGED <<inVars, mapVars, fltVars, convVars, cmpVars, entVars, purVars, restVars,
                   domVars, msaVars, outVars, sumVars, upids, prefixes, dl_calls,
                   proteome_upid, output_path, files_at_entry, http_in_call>>

\* os.remove(gz_path) raises OSError
GzRemoveFail ==
    /\ pc = "gz_remove"
    /\ GzBack("os_error_remove")
    /\ UNCHANGED <<inVars, mapVars, fltVars, convVars, cmpVars, entVars, purVars, restVars,
                   domVars, msaVars, outVars, sumVars, upids, prefixes, dl_calls, files,
                   proteome_upid, output_path, files_at_entry, http_in_call, touched>>

\* ------------------------------------ compare/structures.py: polling
\* a reply is <<http, body>>; a body is <<shape, status, message>>, where
\* shape tells what response.json() makes of it:
\*   "undecodable"      json.JSONDecodeError
\*   "not_object"       a JSON value that is no object, as [] or null
\*   "no_info"          an object without the key "info"
\*   "info_not_object"  an object whose "info" is no object, as {"info": null}
\*   "info"             an object whose "info" is an object; status and
\*                      message are its entries ("": the key is absent)
ReplyPool ==
    { <<"fail", <<"info", "COMPLETE", "">> >>,
      <<"ok", <<"undecodable", "", "">> >>,
      <<"ok", <<"not_object", "", "">> >>,
      <<"ok", <<"no_info", "", "">> >>,
      <<"ok", <<"info_not_object", "", "">> >>,
      <<"ok", <<"info", "", "">> >>,
      <<"ok", <<"info", "RUNNING", "">> >>,
      <<"ok", <<"info", "COMPLETE", "">> >>,
      <<"ok", <<"info", "ERROR", "">> >>,
      <<"ok", <<"info", "ERROR", "bad input">> >>,
      <<"ok", <<"info", "QUEUED", "">> >> }

PollIntervals == {1, 5}

Min(x, y) == IF x <= y THEN x ELSE y

\* result.get("info", {}) and info.get("status") are calls of dict.get
HasGet(body) == body[1] \in {"no_info", "info"}

\* result.get("info", {}).get("status"); "" stands for None
StatusOf(body) == IF body[1] = "info" THEN body[2] ELSE ""

\* mutant: a reply without status counts as a running job
RunningOrMissing(status) == status \in {"RUNNING", ""}

\* status == "RUNNING"
IsRunning(status) == status = "RUNNING"

pollRest == <<inVars, mapVars, fltVars, convVars, cmpVars, entVars, purVars,
              fetchVars, subVars, rowVars, domVars, msaVars, outVars, sumVars>>

\* response = requests.get(url); response.raise_for_status()
PollGet ==
    /\ pc = "poll_get"
    /\ \E r \in ReplyPool :
          /\ r[1] = "ok"
          /\ reply' = r
    /\ polls' = Min(polls + 1, MaxPolls)
    /\ pc' = "poll_json"
    /\ UNCHANGED <<pollRest, poll_interval, slept, poll_result, poll_error>>

\* except RequestException as e: raise RuntimeError(...)
PollGetFail ==
    /\ pc = "poll_get"
    /\ \E r \in ReplyPool :
          /\ r[1] = "fail"
          /\ reply' = r
    /\ polls' = Min(polls + 1, MaxPolls)
    /\ poll_error' = "RuntimeError"
    /\ pc' = "poll_raised"
    /\ UNCHANGED <<pollRest, poll_interval, slept, poll_result>>

\* result = response.json()
PollJson ==
    /\ pc = "poll_json"
    /\ reply[2][1] # "undecodable"
    /\ pc' = "poll_status"
    /\ UNCHANGED <<pollRest, pollVars>>

\* except json.JSONDecodeError: raise RuntimeError(...)
PollJsonFail ==
    /\ pc = "poll_json"
    /\ reply[2][1] = "undecodable"
    /\ poll_error' = "RuntimeError"
    /\ pc' = "poll_raised"
    /\ UNCHANGED <<pollRest, poll_interval, reply, polls, slept, poll_result>>

\* status = result.get("info", {}).get("status") on a value without .get
PollStatusFail ==
    /\ pc = "poll_status"
    /\ ~HasGet(reply[2])
    /\ poll_error' = "AttributeError"
    /\ pc' = "poll_raised"
    /\ UNCHANGED <<pollRest, poll_interval, reply, polls, slept, poll_result>>

\* if status == "RUNNING": time.sleep(poll_interval), and the loop goes on
PollRunning ==
    /\ pc = "poll_status"
    /\ HasGet(reply[2])
    /\ IsRunning(StatusOf(reply[2]))
    /\ slept' = Min(slept + poll_interval, MaxPolls * poll_interval)
    /\ pc' = "poll_get"
    /\ UNCHANGED <<pollRest, poll_interval, reply, polls, poll_result, poll_error>>

\* elif status == "COMPLETE": return result
PollComplete ==
    /\ pc = "poll_status"
    /\ HasGet(reply[2])
    /\ ~IsRunning(StatusOf(reply[2]))
    /\ StatusOf(reply[2]) = "COMPLETE"
    /\ poll_result' = reply[2]
    /\ pc' = "poll_returned"
    /\ UNCHANGED <<pollRest, poll_interval, reply, polls, slept, poll_error>>

\* elif status == "ERROR": raise RuntimeError(f"Alignment job error: {message}")
PollError ==
    /\ pc = "poll_status"
    /\ HasGet(reply[2])
    /\ ~IsRunning(StatusOf(reply[2]))
    /\ StatusOf(reply[2]) = "ERROR"
    /\ poll_error' = "RuntimeError"
    /\ pc' = "poll_raised"
    /\ UNCHANGED <<pollRest, poll_interval, reply, polls, slept, poll_result>>

\* else: raise RuntimeError(f"Unexpected response: {result}")
PollUnexpected ==
    /\ pc = "poll_status"
    /\ HasGet(reply[2])
    /\ ~IsRunning(StatusOf(reply[2]))
    /\ StatusOf(reply[2]) \notin {"COMPLETE", "ERROR"}
    /\ poll_error' = "RuntimeError"
    /\ pc' = "poll_raised"
    /\ UNCHANGED <<pollRest, poll_interval, reply, polls, slept, poll_result>>

\* ---------------------------- extract_sites: the rows of the TSV file
\* a row is the tuple of its columns; column 1, the full header, is the
\* tuple of its '|'-separated parts, the other columns are strings
HeaderA == <<"sp", "P1", "A">>
HeaderB == <<"B">>
HeaderC == <<"sp", "P3", "C">>

RowPool ==
    { <<HeaderA, "5", "S", "0.9">>,
      <<HeaderA, " 3 ", "y", "5e-1">>,
      <<HeaderB, "5", "T", "1", "note">>,
      <<HeaderC, "7", "S", "0.9">>,
      <<HeaderA, "5", "S">>,
      <<HeaderA, "2.5", "S", "0.9">>,
      <<HeaderB, "6", "S", "high">>,
      <<HeaderA, "8", "A", "0.9">> }

TsvNames == {"pred.tsv", "pred_Y.tsv", "pred_SorT.tsv"}

\* headers, as compare_phospho_sites passes them
ReqHeaders == <<"A", "B">>

\* int(s) on the strings of the pool; the others raise ValueError
IntTable == ("5" :> 5) @@ (" 3 " :> 3) @@ ("6" :> 6) @@ ("7" :> 7) @@ ("8" :> 8)

\* float(s) on the strings of the pool, in tenths; the others raise ValueError
FloatTable == ("0.9" :> 9) @@ ("5e-1" :> 5) @@ ("1" :> 10)

\* s.upper() on the strings of the pool
Upper(s) == IF s = "y" THEN "Y" ELSE s

\* full_header.split("|")[-1]
ShortHeader(full_header) == full_header[Len(full_header)]

\* "_Y" in filename / "_SorT" in filename / else
AllowedResidues(filename) ==
    IF filename = "pred_Y.tsv" THEN {"Y"}
    ELSE IF filename = "pred_SorT.tsv" THEN {"S", "T"}
    ELSE {"S", "T", "Y"}

\* int(row[1]) or float(row[3]) raises ValueError
RaisesValueError(row) == row[2] \notin DOMAIN IntTable \/ row[4] \notin DOMAIN FloatTable

\* (position, residue, score)
ParsedSite(row) == <<IntTable[row[2]], Upper(row[3]), FloatTable[row[4]]>>

\* headers_set = set(headers)
HeadersSet == {ReqHeaders[n] : n \in 1..Len(ReqHeaders)}

\* results.setdefault(key, [])
DictSetDefault(dict, key) ==
    IF DictHas(dict, key) THEN dict ELSE Append(dict, <<key, <<>> >>)

\* mutant: a skipped row ends the reading
Break(i) == Len(tsv_rows) + 1

\* continue
Continue(i) == i + 1

rowRest == <<inVars, mapVars, fltVars, convVars, cmpVars, entVars, purVars,
             fetchVars, pollVars, subVars, domVars, msaVars, outVars, sumVars>>

\* if not os.path.isfile(tsv_file): raise FileNotFoundError
ExtNotFound ==
    /\ pc = "ext_entry"
    /\ ext_error' = "FileNotFoundError"
    /\ pc' = "ext_raised"
    /\ UNCHANGED <<rowRest, ext_copy, tsv_name, tsv_rows, ri, ext_results>>

\* the file is there: results = defaultdict(list), the reader is opened
ExtOpen ==
    /\ pc = "ext_entry"
    /\ ext_results' = <<>>
    /\ ri' = 1
    /\ pc' = "ext_loop"
    /\ UNCHANGED <<rowRest, ext_copy, tsv_name, tsv_rows, ext_error>>

\* if len(row) < 4: continue
ExtRowShort ==
    /\ pc = "ext_loop"
    /\ ri <= Len(tsv_rows)
    /\ Len(tsv_rows[ri]) < 4
    /\ ri' = Continue(ri)
    /\ UNCHANGED <<pc, rowRest, ext_copy, tsv_name, tsv_rows, ext_results, ext_error>>

\* except ValueError: continue
ExtRowBad ==
    /\ pc = "ext_loop"
    /\ ri <= Len(tsv_rows)
    /\ Len(tsv_rows[ri]) >= 4
    /\ RaisesValueError(tsv_rows[ri])
    /\ ri' = Continue(ri)
    /\ UNCHANGED <<pc, rowRest, ext_copy, tsv_name, tsv_rows, ext_results, ext_error>>

\* if residue not in allowed_residues: continue
ExtRowResidue ==
    /\ pc = "ext_loop"
    /\ ri <= Len(tsv_rows)
    /\ Len(tsv_rows[ri]) >= 4
    /\ ~RaisesValueError(tsv_rows[ri])
    /\ ParsedSite(tsv_rows[ri])[2] \notin AllowedResidues(tsv_name)
    /\ ri' = Continue(ri)
    /\ UNCHANGED <<pc, rowRest, ext_copy, tsv_name, tsv_rows, ext_results, ext_error>>

\* if short_header in headers_set: results[short_header].append(...)
ExtRowAppend ==
    /\ pc = "ext_loop"
    /\ ri <= Len(tsv_rows)
    /\ Len(tsv_rows[ri]) >= 4
    /\ ~RaisesValueError(tsv_rows[ri])
    /\ ParsedSite(tsv_rows[ri])[2] \in AllowedResidues(tsv_name)
    /\ ShortHeader(tsv_rows[ri][1]) \in HeadersSet
    /\ ext_results' = DictAppend(ext_results, ShortHeader(tsv_rows[ri][1]),
                                 ParsedSite(tsv_rows[ri]))
    /\ ri' = ri + 1
    /\ UNCHANGED <<pc, rowRest, ext_copy, tsv_name, tsv_rows, ext_error>>

\* a well-formed row of a sequence that was not asked for
ExtRowOther ==
    /\ pc = "ext_loop"
    /\ ri <= Len(tsv_rows)
    /\ Len(tsv_rows[ri]) >= 4
    /\ ~RaisesValueError(tsv_rows[ri])
    /\ ParsedSite(tsv_rows[ri])[2] \in AllowedResidues(tsv_name)
    /\ ShortHeader(tsv_rows[ri][1]) \notin HeadersSet
    /\ ri' = ri + 1
    /\ UNCHANGED <<pc, rowRest, ext_copy, tsv_name, tsv_rows, ext_results, ext_error>>

\* ps_sites.py: if not results: raise ValueError
ExtRaiseEmpty ==
    /\ pc = "ext_loop"
    /\ ri > Len(tsv_rows)
    /\ ext_copy = "raw"
    /\ ext_results = <<>>
    /\ ext_error' = "ValueError"
    /\ pc' = "ext_raised"
    /\ UNCHANGED <<rowRest, ext_copy, tsv_name, tsv_rows, ri, ext_results>>

\* ps_sites.py: return results
ExtReturnRaw ==
    /\ pc = "ext_loop"
    /\ ri > Len(tsv_rows)
    /\ ext_copy = "raw"
    /\ ext_results # <<>>
    /\ pc' = "ext_returned"
    /\ UNCHANGED <<rowRest, rowVars>>

\* msa_ps_sites.py: for h in headers: results.setdefault(h, []); return results
ExtReturnMsa ==
    /\ pc = "ext_loop"
    /\ ri > Len(tsv_rows)
    /\ ext_copy = "msa"
    /\ ext_results' = DictSetDefault(DictSetDefault(ext_results, ReqHeaders[1]),
                                     ReqHeaders[2])
    /\ pc' = "ext_returned"
    /\ UNCHANGED <<rowRest, ext_copy, tsv_name, tsv_rows, ri, ext_error>>

\* --------------------------------- compare/structures.py: submission
\* the paths the call may be given, and those of them that are files
PathPool == {"a.cif", "b.cif", "missing.cif"}
ExistingFiles == {"a.cif", "b.cif"}

Methods == {"fatcat-flexible", "fatcat-rigid", "tm-align"}

\* what requests.post and raise_for_status may give: <<outcome, response.text>>
ResponsePool ==
    { <<"fail", "">>,
      <<"ok", "1f3a-77">>,
      <<"ok", " 1f3a-77\n">>,
      <<"ok", "">>,
      <<"ok", " \n">> }

\* response.text.strip() on the texts of the pool
Strip(text) == IF text \in {"1f3a-77", " 1f3a-77\n"} THEN "1f3a-77" ELSE ""

subRest == <<inVars, mapVars, fltVars, convVars, cmpVars, entVars, purVars,
             fetchVars, pollVars, rowVars, domVars, msaVars, outVars, sumVars>>

\* ("files", (file1, open(file1, "rb")))
SubOpen1 ==
    /\ pc = "sub_open1"
    /\ file1 \in ExistingFiles
    /\ handles' = handles \cup {"f1"}
    /\ opened' = opened \cup {"f1"}
    /\ pc' = "sub_open2"
    /\ UNCHANGED <<subRest, file1, file2, method, response, ticket, sub_error>>

\* open(file1, "rb") raises FileNotFoundError: raise RuntimeError
SubOpen1Fail ==
    /\ pc = "sub_open1"
    /\ file1 \notin ExistingFiles
    /\ sub_error' = "RuntimeError"
    /\ pc' = "sub_raised"
    /\ UNCHANGED <<subRest, file1, file2, method, handles, opened, response, ticket>>

\* ("files", (file2, open(file2, "rb")))
SubOpen2 ==
    /\ pc = "sub_open2"
    /\ file2 \in ExistingFiles
    /\ handles' = handles \cup {"f2"}
    /\ opened' = opened \cup {"f2"}
    /\ pc' = "sub_post"
    /\ UNCHANGED <<subRest, file1, file2, method, response, ticket, sub_error>>

\* open(file2, "rb") raises FileNotFoundError: raise RuntimeError. The list
\* was never bound to files, and no statement closes the first file object;
\* it is closed if and when the interpreter reclaims it.
SubOpen2Fail ==
    /\ pc = "sub_open2"
    /\ file2 \notin ExistingFiles
    /\ \E reclaimed \in BOOLEAN :
          handles' = IF reclaimed THEN handles \ {"f1"} ELSE handles
    /\ sub_error' = "RuntimeError"
    /\ pc' = "sub_raised"
    /\ UNCHANGED <<subRest, file1, file2, method, opened, response, ticket>>

\* response = requests.post(...); response.raise_for_status();
\* finally: for _, (_, f) in files: f.close()
SubPost ==
    /\ pc = "sub_post"
    /\ \E r \in ResponsePool :
          /\ r[1] = "ok"
          /\ response' = r
    /\ handles' = handles \ {"f1", "f2"}
    /\ pc' = "sub_ticket"
    /\ UNCHANGED <<subRest, file1, file2, method, opened, ticket, sub_error>>

\* except RequestException: raise RuntimeError; finally: f.close()
SubPostFail ==
    /\ pc = "sub_post"
    /\ \E r \in ResponsePool :
          /\ r[1] = "fail"
          /\ response' = r
    /\ handles' = handles \ {"f1", "f2"}
    /\ sub_error' = "RuntimeError"
    /\ pc' = "sub_raised"
    /\ UNCHANGED <<subRest, file1, file2, method, opened, ticket>>

\* ticket = response.text.strip(); if not ticket: raise RuntimeError
SubTicketEmpty ==
    /\ pc = "sub_ticket"
    /\ Strip(response[2]) = ""
    /\ sub_error' = "RuntimeError"
    /\ pc' = "sub_raised"
    /\ UNCHANGED <<subRest, file1, file2, method, handles, opened, response, ticket>>

\* return ticket
SubReturn ==
    /\ pc = "sub_ticket"
    /\ Strip(response[2]) # ""
    /\ ticket' = Strip(response[2])
    /\ pc' = "sub_returned"
    /\ UNCHANGED <<subRest, file1, file2, method, handles, opened, response, sub_error>>

\* ------------------------------------------------------- specifications
NoDomains == domains1 = <<>> /\ domains2 = <<>>
NoSites == sites1 = <<>> /\ sites2 = <<>>
NoMapped == mapped1 = <<>> /\ mapped2 = <<>>

MapIdle == aligned_seq = <<>> /\ msa_idx = 1 /\ raw_pos = 0 /\ mapping = EmptyMap

FltIdle ==
    /\ flt_in = <<>> /\ cutoff = 0 /\ flt_out = <<>> /\ flt_out2 = <<>>
    /\ flt_copy = "none"

ConvIdle == conv_sites = <<>> /\ pos_map = EmptyMap /\ ci = 1 /\ converted = <<>>

CmpIdle ==
    /\ msa1 = <<>> /\ msa2 = <<>> /\ pos_maps1 = EmptyMap /\ pos_maps2 = EmptyMap
    /\ site_dict1 = <<>> /\ site_dict2 = <<>> /\ raw_sites1 = <<>> /\ raw_sites2 = <<>>
    /\ error = "none" /\ written = FALSE

EntIdle ==
    /\ headers_len = 2 /\ files_read = {}
    /\ domain_dict1 = <<>> /\ domain_dict2 = <<>>

PurIdle ==
    /\ unique2_obj = "none" /\ call_no = 1 /\ first_result = <<>> /\ args0 = <<>>

FetchIdle ==
    /\ upids = <<>> /\ prefixes = {} /\ di = 1 /\ dl_calls = <<>>
    /\ files = {} /\ proteome_upid = "" /\ output_path = <<>>
    /\ files_at_entry = {} /\ http_in_call = 0 /\ touched = {}
    /\ dl_outcome = "none"

PollIdle ==
    /\ poll_interval = 5 /\ reply = <<>> /\ polls = 0 /\ slept = 0
    /\ poll_result = <<>> /\ poll_error = "none"

SubIdle ==
    /\ file1 = "" /\ file2 = "" /\ method = "fatcat-flexible"
    /\ handles = {} /\ opened = {}
    /\ response = <<>> /\ ticket = "" /\ sub_error = "none"

RowIdle ==
    /\ ext_copy = "raw" /\ tsv_name = "" /\ tsv_rows = <<>> /\ ri = 1
    /\ ext_results = <<>> /\ ext_error = "none"

RestIdle == PollIdle /\ SubIdle /\ RowIdle

MoreIdle == EntIdle /\ PurIdle /\ FetchIdle /\ RestIdle

AuxIdle == MapIdle /\ FltIdle /\ ConvIdle /\ CmpIdle /\ MoreIdle

Fresh ==
    /\ by_name2 = <<>> /\ used_d2 = {}
    /\ index2 = [x \in {} |-> <<0, 0>>] /\ matched_msa_keys = {}
    /\ index2_from = [x \in {} |-> 0]
    /\ i1 = 1 /\ unique1 = <<>> /\ unique2 = <<>>
    /\ pairs = <<>> /\ from1 = <<>> /\ from2 = <<>>
    /\ summary = EmptySummary /\ k = 1

\* compare_domains: find_common_domains, then summarize_distances
InitDomains ==
    /\ pc = "dom_index"
    /\ domains1 \in SeqsUpTo(DomainPool, MaxDomainsA)
    /\ domains2 \in SeqsUpTo(DomainPool, MaxDomainsB)
    /\ NoSites /\ NoMapped
    /\ common = <<>>
    /\ Fresh
    /\ AuxIdle

NextDomains ==
    \/ IndexB
    \/ ScanNoBucket
    \/ ScanNoCandidates
    \/ ScanMatch
    \/ CollectUnique2
    \/ SummarizeRecord
    \/ SummarizeReturn

SpecDomains == InitDomains /\ [][NextDomains]_vars

\* summarize_distances on any list of match records
InitSummary ==
    /\ pc = "sum_loop"
    /\ common \in SeqsUpTo(MatchRecords, MaxCommon)
    /\ NoDomains /\ NoSites /\ NoMapped
    /\ Fresh
    /\ AuxIdle

NextSummary ==
    \/ SummarizeRecord
    \/ SummarizeReturn

SpecSummary == InitSummary /\ [][NextSummary]_vars

\* find_common_sites on two lists of raw sites
InitSites ==
    /\ pc = "raw_begin"
    /\ sites1 \in SeqsUpTo(SitePool, MaxSites)
    /\ sites2 \in SeqsUpTo(SitePool, MaxSites)
    /\ NoDomains /\ NoMapped
    /\ common = <<>>
    /\ Fresh
    /\ AuxIdle

NextSites ==
    \/ RawBegin
    \/ RawScanMatch
    \/ RawScanNoMatch
    \/ RawSortReturn

SpecSites == InitSites /\ [][NextSites]_vars

\* find_common_sites_msa on two lists of mapped sites
InitMsa ==
    /\ pc = "msa_index"
    /\ mapped1 \in SeqsUpTo(MappedPool1, MaxMapped)
    /\ mapped2 \in SeqsUpTo(MappedPool2, MaxMapped)
    /\ NoDomains /\ NoSites
    /\ common = <<>>
    /\ Fresh
    /\ AuxIdle

NextMsa ==
    \/ MsaIndex
    \/ MsaScanMatch
    \/ MsaScanUnique
    \/ MsaSortReturn

SpecMsa == InitMsa /\ [][NextMsa]_vars

\* map_seq_to_msa_positions on any aligned sequence
InitMap ==
    /\ pc = "map_loop"
    /\ aligned_seq \in SeqsUpTo(AlignChars, MaxAligned)
    /\ msa_idx = 1 /\ raw_pos = 0 /\ mapping = EmptyMap
    /\ FltIdle /\ ConvIdle /\ CmpIdle /\ MoreIdle
    /\ NoDomains /\ NoSites /\ NoMapped
    /\ common = <<>>
    /\ Fresh

NextMap ==
    \/ MapSkipGap
    \/ MapRecord
    \/ MapReturn

SpecMap == InitMap /\ [][NextMap]_vars

\* filter_sites_by_cutoff (either copy) on any list of sites, then once more
\* on its own result
InitFilter ==
    /\ pc = "flt_call"
    /\ flt_in \in SeqsUpTo(SitePool, MaxFiltered)
    /\ cutoff \in Cutoffs
    /\ flt_out = <<>> /\ flt_out2 = <<>> /\ flt_copy = "none"
    /\ MapIdle /\ ConvIdle /\ CmpIdle /\ MoreIdle
    /\ NoDomains /\ NoSites /\ NoMapped
    /\ common = <<>>
    /\ Fresh

NextFilter ==
    \/ FilterRaw
    \/ FilterMsa
    \/ FilterRawAgain
    \/ FilterMsaAgain

SpecFilter == InitFilter /\ [][NextFilter]_vars

\* convert_sites_to_msa on any list of sites and the map of an aligned sequence
InitConvert ==
    /\ pc = "conv_loop"
    /\ conv_sites \in SeqsUpTo(SitePool, MaxConverted)
    /\ pos_map \in {MapSeqToMsaPositions(s) : s \in AlignedPool}
    /\ ci = 1 /\ converted = <<>>
    /\ MapIdle /\ FltIdle /\ CmpIdle /\ MoreIdle
    /\ NoDomains /\ NoSites /\ NoMapped
    /\ common = <<>>
    /\ Fresh

NextConvert ==
    \/ ConvertKeep
    \/ ConvertDrop
    \/ ConvertReturn

SpecConvert == InitConvert /\ [][NextConvert]_vars

\* msa_ps_sites.compare_phospho_sites from the position maps on: two aligned
\* sequences of the MSA, any cutoff, any sites in the TSV
InitCompareMsa ==
    /\ pc = "cmp_maps"
    /\ msa1 \in AlignedPool
    /\ msa2 \in AlignedPool
    /\ cutoff \in Cutoffs
    /\ pos_maps1 = EmptyMap /\ pos_maps2 = EmptyMap
    /\ site_dict1 = <<>> /\ site_dict2 = <<>> /\ raw_sites1 = <<>> /\ raw_sites2 = <<>>
    /\ error = "none" /\ written = FALSE
    /\ flt_in = <<>> /\ flt_out = <<>> /\ flt_out2 = <<>> /\ flt_copy = "none"
    /\ MapIdle /\ ConvIdle /\ MoreIdle
    /\ NoDomains /\ NoSites /\ NoMapped
    /\ common = <<>>
    /\ Fresh

NextCompareMsa ==
    \/ CmpPosMaps
    \/ CmpExtract
    \/ CmpExtractRaise
    \/ CmpFilter
    \/ CmpConvert
    \/ CmpNoSitesRaise
    \/ CmpMatch
    \/ MsaIndex
    \/ MsaScanMatch
    \/ MsaScanUnique
    \/ MsaSortReturn
    \/ CmpSave

SpecCompareMsa == InitCompareMsa /\ [][NextCompareMsa]_vars

\* ps_sites.compare_phospho_sites with any number of headers, any cutoff and
\* any sites in the TSV
InitCompareRaw ==
    /\ pc = "rawcmp_entry"
    /\ headers_len \in HeaderCounts
    /\ cutoff \in Cutoffs
    /\ files_read = {} /\ domain_dict1 = <<>> /\ domain_dict2 = <<>>
    /\ PurIdle /\ FetchIdle /\ RestIdle
    /\ flt_in = <<>> /\ flt_out = <<>> /\ flt_out2 = <<>> /\ flt_copy = "none"
    /\ MapIdle /\ ConvIdle /\ CmpIdle
    /\ NoDomains /\ NoSites /\ NoMapped
    /\ common = <<>>
    /\ Fresh

NextCompareRaw ==
    \/ RawCmpHeadersRaise
    \/ RawCmpHeadersOk
    \/ RawCmpExtract
    \/ RawCmpExtractRaise
    \/ RawCmpFilter
    \/ RawBegin
    \/ RawScanMatch
    \/ RawScanNoMatch
    \/ RawSortReturn
    \/ RawCmpSave

SpecCompareRaw == InitCompareRaw /\ [][NextCompareRaw]_vars

\* compare_domains with any number of headers and any domains in the TSV
InitCompareDomains ==
    /\ pc = "domcmp_entry"
    /\ headers_len \in HeaderCounts
    /\ files_read = {} /\ domain_dict1 = <<>> /\ domain_dict2 = <<>>
    /\ PurIdle /\ FetchIdle /\ RestIdle
    /\ MapIdle /\ FltIdle /\ ConvIdle /\ CmpIdle
    /\ NoDomains /\ NoSites /\ NoMapped
    /\ common = <<>>
    /\ Fresh

NextCompareDomains ==
    \/ DomCmpHeadersRaise
    \/ DomCmpHeadersOk
    \/ DomCmpExtract
    \/ DomCmpExtractRaise
    \/ DomCmpGet
    \/ IndexB
    \/ ScanNoBucket
    \/ ScanNoCandidates
    \/ ScanMatch
    \/ CollectUnique2
    \/ SummarizeRecord
    \/ SummarizeReturn
    \/ DomCmpSave

SpecCompareDomains == InitCompareDomains /\ [][NextCompareDomains]_vars

\* the three comparison entry points, from their first statement
InitCompare ==
    /\ pc \in {"domcmp_entry", "rawcmp_entry", "cmp_entry"}
    /\ headers_len \in HeaderCounts
    /\ cutoff \in (IF pc = "domcmp_entry" THEN {0} ELSE Cutoffs)
    /\ files_read = {} /\ domain_dict1 = <<>> /\ domain_dict2 = <<>>
    /\ PurIdle /\ FetchIdle /\ RestIdle
    /\ flt_in = <<>> /\ flt_out = <<>> /\ flt_out2 = <<>> /\ flt_copy = "none"
    /\ MapIdle /\ ConvIdle /\ CmpIdle
    /\ NoDomains /\ NoSites /\ NoMapped
    /\ common = <<>>
    /\ Fresh

NextCompare ==
    \/ NextCompareDomains
    \/ NextCompareRaw
    \/ CmpHeadersRaise
    \/ CmpHeadersOk
    \/ CmpParse
    \/ CmpParseMissing
    \/ NextCompareMsa

SpecCompare == InitCompare /\ [][NextCompare]_vars

\* each of the three matchers, called twice on the same two lists
InitTwice ==
    /\ pc \in {"dom_index", "raw_begin", "msa_index"}
    /\ IF pc = "dom_index"
          THEN /\ domains1 \in SeqsUpTo(TsvDomainPool, MaxTsvDomains)
               /\ domains2 \in SeqsUpTo(TsvDomainPool, MaxTsvDomains)
          ELSE NoDomains
    /\ IF pc = "raw_begin"
          THEN /\ sites1 \in SeqsUpTo(SitePool, MaxSites)
               /\ sites2 \in SeqsUpTo(SitePool, MaxSites)
          ELSE NoSites
    /\ IF pc = "msa_index"
          THEN /\ mapped1 \in SeqsUpTo(MappedPool1, MaxMapped)
               /\ mapped2 \in SeqsUpTo(MappedPool2, MaxMapped)
          ELSE NoMapped
    /\ args0 = <<domains1, domains2, sites1, sites2, mapped1, mapped2>>
    /\ unique2_obj = "none" /\ call_no = 1 /\ first_result = <<>>
    /\ MapIdle /\ FltIdle /\ ConvIdle /\ CmpIdle /\ EntIdle /\ FetchIdle /\ RestIdle
    /\ common = <<>>
    /\ Fresh

NextTwice ==
    \/ IndexB
    \/ ScanNoBucket
    \/ ScanNoCandidates
    \/ ScanMatch
    \/ CollectUnique2
    \/ NextSites
    \/ NextMsa
    \/ CallAgain

SpecTwice == InitTwice /\ [][NextTwice]_vars

\* download_reference_proteome_for_upids on any list of UPIDs, with or
\* without prefixes, in a directory that may hold earlier downloads
InitFetch ==
    /\ pc = "dl_loop"
    /\ upids \in SeqsUpTo(UpidPool, MaxUpids)
    /\ prefixes \in {None} \cup {Some(l) : l \in SeqsUpTo(PrefixPool, MaxPrefixes)}
    /\ files \in SUBSET {OutputPath(OutputDir, "UP000005640"),
                         OutputPath(OutputDir, "Arabidopsis"),
                         GzPath(OutputPath(OutputDir, "Arabidopsis"))}
    /\ di = 1 /\ dl_calls = <<>>
    /\ proteome_upid = "" /\ output_path = <<>>
    /\ files_at_entry = {} /\ http_in_call = 0 /\ touched = {}
    /\ dl_outcome = "none"
    /\ MapIdle /\ FltIdle /\ ConvIdle /\ CmpIdle /\ EntIdle /\ PurIdle /\ RestIdle
    /\ NoDomains /\ NoSites /\ NoMapped
    /\ common = <<>>
    /\ Fresh

NextFetch ==
    \/ DlCall
    \/ DlReturn
    \/ GzSkip
    \/ GzGet
    \/ GzGetFail
    \/ GzWrite
    \/ GzWriteFail
    \/ GzExtract
    \/ GzExtractFail
    \/ GzRemove
    \/ GzRemoveFail

SpecFetch == InitFetch /\ [][NextFetch]_vars

\* wait_for_results against a server that may answer each request in any way
InitPoll ==
    /\ pc = "poll_get"
    /\ poll_interval \in PollIntervals
    /\ reply = <<>> /\ polls = 0 /\ slept = 0
    /\ poll_result = <<>> /\ poll_error = "none"
    /\ MapIdle /\ FltIdle /\ ConvIdle /\ CmpIdle /\ EntIdle /\ PurIdle /\ FetchIdle
    /\ SubIdle /\ RowIdle
    /\ NoDomains /\ NoSites /\ NoMapped
    /\ common = <<>>
    /\ Fresh

NextPoll ==
    \/ PollGet
    \/ PollGetFail
    \/ PollJson
    \/ PollJsonFail
    \/ PollStatusFail
    \/ PollRunning
    \/ PollComplete
    \/ PollError
    \/ PollUnexpected

\* the function is the only thread and every statement of its loop ends:
\* a step that can be taken is taken
SpecPoll == InitPoll /\ [][NextPoll]_vars /\ WF_vars(NextPoll)

\* either extract_sites on any file of up to MaxRows rows
InitExtract ==
    /\ pc = "ext_entry"
    /\ ext_copy \in {"raw", "msa"}
    /\ tsv_name \in TsvNames
    /\ tsv_rows \in SeqsUpTo(RowPool, MaxRows)
    /\ ri = 1 /\ ext_results = <<>> /\ ext_error = "none"
    /\ MapIdle /\ FltIdle /\ ConvIdle /\ CmpIdle /\ EntIdle /\ PurIdle /\ FetchIdle
    /\ PollIdle /\ SubIdle
    /\ NoDomains /\ NoSites /\ NoMapped
    /\ common = <<>>
    /\ Fresh

NextExtract ==
    \/ ExtNotFound
    \/ ExtOpen
    \/ ExtRowShort
    \/ ExtRowBad
    \/ ExtRowResidue
    \/ ExtRowAppend
    \/ ExtRowOther
    \/ ExtRaiseEmpty
    \/ ExtReturnRaw
    \/ ExtReturnMsa

SpecExtract == InitExtract /\ [][NextExtract]_vars

\* submit_alignment on any two paths, against a server that may answer the
\* request in any way
InitSubmit ==
    /\ pc = "sub_open1"
    /\ file1 \in PathPool
    /\ file2 \in PathPool
    /\ method \in Methods
    /\ handles = {} /\ opened = {}
    /\ response = <<>> /\ ticket = "" /\ sub_error = "none"
    /\ MapIdle /\ FltIdle /\ ConvIdle /\ CmpIdle /\ EntIdle /\ PurIdle /\ FetchIdle
    /\ PollIdle /\ RowIdle
    /\ NoDomains /\ NoSites /\ NoMapped
    /\ common = <<>>
    /\ Fresh

NextSubmit ==
    \/ SubOpen1
    \/ SubOpen1Fail
    \/ SubOpen2
    \/ SubOpen2Fail
    \/ SubPost
    \/ SubPostFail
    \/ SubTicketEmpty
    \/ SubReturn

SpecSubmit == InitSubmit /\ [][NextSubmit]_vars

Spec == SpecDomains

\* ------------------------------------------------------------------ claims
Dist(x, y) == IF x >= y THEN x - y ELSE y - x
MaxOf(S) == CHOOSE x \in S : \A y \in S : y <= x
Range(s) == {s[n] : n \in 1..Len(s)}
Count(s, x) == Cardinality({n \in 1..Len(s) : s[n] = x})

\* find_common_domains has returned
DomReturned == pc \in {"sum_loop", "sum_done"}

\* C1: when find_common_domains has returned (common, unique_A, unique_B),
\* 2*len(common) + len(unique_A) + len(unique_B) = len(list_A) + len(list_B).
C1_DomainConservation ==
    DomReturned =>
        2 * Len(common) + Len(unique1) + Len(unique2) = Len(domains1) + Len(domains2)

\* C2: when find_common_sites has returned (common, unique_A, unique_B),
\* 2*len(common) + len(unique_A) + len(unique_B) = len(sites_A) + len(sites_B).
C2_RawConservation ==
    pc = "raw_done" =>
        2 * Len(common) + Len(unique1) + Len(unique2) = Len(sites1) + Len(sites2)

\* C3: when find_common_sites_msa has returned (common, unique_A, unique_B),
\* 2*len(common) + len(unique_A) + len(unique_B) = len(mapped_A) + len(mapped_B).
C3_MsaConservation ==
    pc = "msa_done" =>
        2 * Len(common) + Len(unique1) + Len(unique2) = Len(mapped1) + Len(mapped2)

\* C4: in find_common_sites no entry (list index) of sites_B gives its score
\* to more than one common record.
C4_RawConsumedOnce ==
    pc \in {"raw_scan", "raw_done"} =>
        \A m, n \in 1..Len(pairs) : pairs[m][2] = pairs[n][2] => m = n

\* C5: when find_common_domains has returned, every index of list_A is either
\* side 1 of exactly one common record or exactly once in unique_A, never
\* both, and every index of list_B is either side 2 of exactly one common
\* record or exactly once in unique_B, never both; the three results hold the
\* values of those entries.
C5_DomainPartition ==
    DomReturned =>
        /\ \A a \in 1..Len(domains1) :
              Count([n \in 1..Len(pairs) |-> pairs[n][1]], a) + Count(from1, a) = 1
        /\ \A b \in 1..Len(domains2) :
              Count([n \in 1..Len(pairs) |-> pairs[n][2]], b) + Count(from2, b) = 1
        /\ Len(pairs) = Len(common)
        /\ unique1 = Values(domains1, from1)
        /\ unique2 = Values(domains2, from2)

\* the entries of list_B with the label of list_A's entry a that no entry of
\* list_A before a was paired with
OpenFor(a) ==
    {j \in 1..Len(domains2) :
        /\ domains2[j][2] = domains1[a][2]
        /\ \A m \in 1..Len(pairs) : pairs[m][1] < a => pairs[m][2] # j}

\* C6: list_A is paired in input order, and the entry of list_B paired with
\* an entry a of list_A is, among the entries of a's label not consumed
\* before a, one with the smallest |start_B - start_A|, and the earliest of
\* list_B among those.
C6_NearestStart ==
    /\ \A m, n \in 1..Len(pairs) : m < n => pairs[m][1] < pairs[n][1]
    /\ \A n \in 1..Len(pairs) :
          LET a == pairs[n][1]
              b == pairs[n][2]
              d(j) == Dist(domains2[j][3], domains1[a][3])
          IN /\ b \in OpenFor(a)
             /\ \A j \in OpenFor(a) : d(b) < d(j) \/ (d(b) = d(j) /\ b <= j)

\* C7: an entry of list_A is never put in unique_A while list_B holds an
\* entry of its label that is not consumed at that point, however far apart
\* the two intervals are.
C7_NoOverlapRequirement ==
    \A n \in 1..Len(from1) : pc \in {"dom_scan", "sum_loop", "sum_done"} =>
        OpenFor(from1[n]) = {}

\* C8: every common record pairs an entry of list_A and an entry of list_B
\* with the same label and carries that label, their two intervals and their
\* two sources unchanged; once the function has returned, an entry of list_A
\* whose label is the label of no entry of list_B is in unique_A.
C8_ExactLabel ==
    /\ Len(pairs) = Len(common)
    /\ \A n \in 1..Len(common) :
          LET a == domains1[pairs[n][1]]
              b == domains2[pairs[n][2]]
          IN /\ a[2] = b[2]
             /\ common[n] = <<a[2], <<a[3], a[4]>>, <<b[3], b[4]>>, a[1], b[1]>>
    /\ DomReturned =>
          \A a \in 1..Len(domains1) :
              (\A b \in 1..Len(domains2) : domains2[b][2] # domains1[a][2]) =>
                  /\ a \in Range(from1)
                  /\ domains1[a] \in Range(unique1)

\* a record was paired, and an entry of list_A with a label foreign to list_B
\* was set aside
C8_Witness ==
    /\ DomReturned
    /\ Len(common) >= 1
    /\ \E a \in 1..Len(domains1) :
          /\ \A b \in 1..Len(domains2) : domains2[b][2] # domains1[a][2]
          /\ domains1[a] \in Range(unique1)

RecordsOf(L) == {n \in 1..Len(common) : common[n][1] = L}

\* C9: the keys of the summary are the labels of common, and for each label
\* dstart is the largest |start_A - start_B| and dend the largest
\* |end_A - end_B| over the records of that label.
C9_MaxPerLabel ==
    pc = "sum_done" =>
        /\ DOMAIN summary = {common[n][1] : n \in 1..Len(common)}
        /\ \A L \in DOMAIN summary :
              /\ summary[L].dstart =
                    MaxOf({Dist(common[n][2][1], common[n][3][1]) : n \in RecordsOf(L)})
              /\ summary[L].dend =
                    MaxOf({Dist(common[n][2][2], common[n][3][2]) : n \in RecordsOf(L)})

\* two records of one label, the largest dstart in one only and the largest
\* dend in the other only, while another label has no record
C9_Witness ==
    /\ pc = "sum_done"
    /\ \E m, n \in 1..Len(common) :
          /\ common[m][1] = common[n][1]
          /\ Dist(common[m][2][1], common[m][3][1]) > Dist(common[n][2][1], common[n][3][1])
          /\ Dist(common[m][2][2], common[m][3][2]) < Dist(common[n][2][2], common[n][3][2])
    /\ DOMAIN summary # Labels

\* every record with its two intervals exchanged
Swapped(cs) == [n \in 1..Len(cs) |-> <<cs[n][1], cs[n][3], cs[n][2], cs[n][4], cs[n][5]>>]

\* C10: the summary of a list of records is the summary of the list with the
\* two intervals of every record exchanged, and no value of it is negative.
C10_DeltaSymmetry ==
    pc = "sum_done" =>
        /\ summary = SummarizeDistances(Swapped(common), Len(common))
        /\ \A L \in DOMAIN summary : summary[L].dstart >= 0 /\ summary[L].dend >= 0

\* a summary of records whose two intervals differ in start and in end
C10_Witness ==
    /\ pc = "sum_done"
    /\ \E n \in 1..Len(common) :
          /\ common[n][2][1] < common[n][3][1]
          /\ common[n][2][2] # common[n][3][2]

\* the columns of s that hold no gap character
NonGapColumns(s) == {c \in 1..Len(s) : s[c] # "-" /\ s[c] # "."}

\* C11: the keys of the map of s are 1..n, n the number of characters of s
\* that are neither '-' nor '.'; the map is strictly increasing, and its
\* values are columns of s.
C11_MapShape ==
    pc = "map_done" =>
        /\ DOMAIN mapping = 1..Cardinality(NonGapColumns(aligned_seq))
        /\ \A p1, p2 \in DOMAIN mapping : p1 < p2 => mapping[p1] < mapping[p2]
        /\ \A p \in DOMAIN mapping : mapping[p] \in 1..Len(aligned_seq)

\* a sequence with both gap characters between residues was mapped
C11_Witness ==
    /\ pc = "map_done"
    /\ \E c1, c2 \in 1..Len(aligned_seq) :
          aligned_seq[c1] = "-" /\ aligned_seq[c2] = "."
    /\ Cardinality(DOMAIN mapping) >= 2
    /\ mapping[2] > mapping[1] + 1

\* C12: the map sends p to the column of the p-th character of s that is
\* neither '-' nor '.'; every character other than these two counts as a
\* residue; a sequence without residues has the empty map.
C12_MapValues ==
    pc = "map_done" =>
        /\ \A p \in DOMAIN mapping :
              /\ mapping[p] \in NonGapColumns(aligned_seq)
              /\ Cardinality({c \in NonGapColumns(aligned_seq) : c <= mapping[p]}) = p
        /\ \A c \in NonGapColumns(aligned_seq) : \E p \in DOMAIN mapping : mapping[p] = c
        /\ NonGapColumns(aligned_seq) = {} => mapping = EmptyMap

\* a sequence starting with a gap, and holding a character that is no letter
\* and no gap, was mapped
C12_Witness ==
    /\ pc = "map_done"
    /\ Len(aligned_seq) >= 3
    /\ IsGap(aligned_seq[1])
    /\ \E c \in 1..Len(aligned_seq) : aligned_seq[c] = "*"
    /\ 1 \in DOMAIN mapping /\ mapping[1] > 1

\* an all-gap sequence was mapped to the empty map
C12_WitnessAllGaps ==
    /\ pc = "map_done"
    /\ Len(aligned_seq) >= 2
    /\ mapping = EmptyMap

\* out holds the entries of s at the indices K, once each, in the order of s
IsSelection(out, s, K) ==
    /\ Len(out) = Cardinality(K)
    /\ \E f \in [1..Len(out) -> K] :
          /\ \A m, n \in 1..Len(out) : m < n => f[m] < f[n]
          /\ \A m \in 1..Len(out) : out[m] = s[f[m]]

\* C13: either copy of filter_sites_by_cutoff returns the entries of sites
\* whose score is at least the cutoff (equal included), once per occurrence,
\* in their input order.
C13_FilterKeeps ==
    pc \in {"flt_once", "flt_twice"} =>
        IsSelection(flt_out, flt_in, {n \in 1..Len(flt_in) : flt_in[n][3] >= cutoff})

\* a list with an entry at the cutoff, a repeated kept entry and a dropped one
C13_Witness ==
    /\ pc = "flt_once"
    /\ \E n \in 1..Len(flt_in) : flt_in[n][3] = cutoff
    /\ \E n \in 1..Len(flt_in) : flt_in[n][3] < cutoff
    /\ \E m, n \in 1..Len(flt_out) : m # n /\ flt_out[m] = flt_out[n]

\* C14: filtering the result of filter_sites_by_cutoff again with the same
\* cutoff returns the same list.
C14_FilterIdempotent ==
    pc = "flt_twice" => flt_out2 = flt_out

\* the copy of msa_ps_sites.py dropped two neighbours, kept one site, and was
\* applied again
C14_Witness ==
    /\ pc = "flt_twice"
    /\ flt_copy = "msa_ps_sites"
    /\ Len(flt_in) = 3 /\ Len(flt_out) = 1
    /\ flt_in[1][3] < cutoff /\ flt_in[2][3] < cutoff

\* C15: convert_sites_to_msa returns, in input order, one tuple
\* (pos_map[position], position, residue, score) for every site whose
\* position is a key of pos_map, and nothing for the other sites.
C15_ConvertDropsUnmapped ==
    pc = "conv_done" =>
        LET K == {n \in 1..Len(conv_sites) : conv_sites[n][1] \in DOMAIN pos_map}
            image == [n \in 1..Len(conv_sites) |->
                        IF n \in K
                        THEN <<pos_map[conv_sites[n][1]], conv_sites[n][1],
                               conv_sites[n][2], conv_sites[n][3]>>
                        ELSE <<>>]
        IN IsSelection(converted, image, K)

\* a mapped site moved to another column, between two sites without a column
C15_Witness ==
    /\ pc = "conv_done"
    /\ Len(conv_sites) = 3 /\ Len(converted) = 1
    /\ conv_sites[1][1] \notin DOMAIN pos_map
    /\ conv_sites[2][1] \in DOMAIN pos_map
    /\ converted[1][1] # converted[1][2]

SameKey(x, y) == x[1] = y[1] /\ x[3] = y[3]

\* C16: an entry of mapped_A gives a common record exactly when mapped_B has
\* an entry with the same column and the same residue; the record holds the
\* column, the residue, and the raw position and score of either side, and
\* the raw positions need not be equal.
C16_MsaMatchCriterion ==
    /\ pc \in {"msa_scan", "msa_done"} =>
          /\ Len(pairs) = Len(common)
          /\ \A n \in 1..Len(common) :
                LET a == mapped1[pairs[n][1]]
                    b == mapped2[pairs[n][2]]
                IN /\ SameKey(a, b)
                   /\ common[n] = <<a[1], a[2], b[2], a[3], a[4], b[4]>>
    /\ pc = "msa_done" =>
          /\ unique1 = Values(mapped1, from1)
          /\ \A a \in 1..Len(mapped1) :
                /\ Count([n \in 1..Len(pairs) |-> pairs[n][1]], a) + Count(from1, a) = 1
                /\ ((\E n \in 1..Len(pairs) : pairs[n][1] = a)
                      <=> (\E b \in 1..Len(mapped2) : SameKey(mapped1[a], mapped2[b])))

\* raw position 3 of one sequence met raw position 4 of the other in column
\* 4, and a site of that column with another residue stayed unmatched
C16_Witness ==
    /\ pc = "msa_done"
    /\ \E n \in 1..Len(common) : common[n][1] = 4 /\ common[n][2] = 3 /\ common[n][3] = 4
    /\ \E n \in 1..Len(unique1) : unique1[n][1] = 4

IsSortedByFirst(lst) == \A m, n \in 1..Len(lst) : m < n => lst[m][1] <= lst[n][1]
Perms(s) == {q \in [1..Len(s) -> Range(s)] : \A x \in Range(s) : Count(q, x) = Count(s, x)}
DistinctKeys(s) == \A m, n \in 1..Len(s) : SameKey(s[m], s[n]) => m = n

\* C17: the three lists returned by find_common_sites_msa are sorted by
\* column, and when no list holds two entries with the same (column,
\* residue) key, reordering the two input lists does not change the result.
C17_MsaOrderFree ==
    pc = "msa_done" =>
        /\ IsSortedByFirst(common) /\ IsSortedByFirst(unique1) /\ IsSortedByFirst(unique2)
        /\ (DistinctKeys(mapped1) /\ DistinctKeys(mapped2) =>
              \A q1 \in Perms(mapped1), q2 \in Perms(mapped2) :
                  FindCommonSitesMsa(q1, q2) = <<common, unique1, unique2>>)

\* C18: a common record of find_common_sites is built from an entry of
\* sites_A and the first entry of sites_B with the same position and the
\* same residue; an entry of sites_A is in unique_A exactly when sites_B has
\* no entry with its position and residue.
C18_RawMatchCriterion ==
    /\ pc \in {"raw_scan", "raw_done"} =>
          /\ Len(pairs) = Len(common)
          /\ \A n \in 1..Len(common) :
                LET a == sites1[pairs[n][1]]
                    j == pairs[n][2]
                IN /\ sites2[j][1] = a[1] /\ sites2[j][2] = a[2]
                   /\ \A m \in 1..(j - 1) : ~(sites2[m][1] = a[1] /\ sites2[m][2] = a[2])
                   /\ common[n] = <<a[1], a[2], a[3], sites2[j][3]>>
    /\ pc = "raw_done" =>
          /\ unique1 = Values(sites1, from1)
          /\ \A a \in 1..Len(sites1) :
                /\ Count([n \in 1..Len(pairs) |-> pairs[n][1]], a) + Count(from1, a) = 1
                /\ (a \in Range(from1) <=>
                      ~\E b \in 1..Len(sites2) :
                          sites2[b][1] = sites1[a][1] /\ sites2[b][2] = sites1[a][2])

\* sites_B held two entries of one position and residue with different
\* scores, and an entry of sites_A with that position and another residue
\* stayed unmatched
C18_Witness ==
    /\ pc = "raw_done"
    /\ Len(sites2) = 2
    /\ sites2[1][1] = sites2[2][1] /\ sites2[1][2] = sites2[2][2] /\ sites2[1][3] # sites2[2][3]
    /\ Len(common) = 1 /\ common[1][4] = sites2[1][3]
    /\ \E n \in 1..Len(unique1) : unique1[n][1] = sites2[1][1]

\* C19: the common record of an entry of mapped_A carries the raw position
\* and the score of the first entry of mapped_B with its column and residue.
C19_MsaFirstOccurrence ==
    pc \in {"msa_scan", "msa_done"} =>
        \A n \in 1..Len(common) :
            LET a == mapped1[pairs[n][1]]
                first == CHOOSE b \in 1..Len(mapped2) :
                            /\ SameKey(a, mapped2[b])
                            /\ \A m \in 1..(b - 1) : ~SameKey(a, mapped2[m])
            IN common[n][3] = mapped2[first][2] /\ common[n][6] = mapped2[first][4]

MatcherNotEntered ==
    /\ DOMAIN index2 = {} /\ matched_msa_keys = {} /\ i1 = 1
    /\ common = <<>> /\ unique1 = <<>> /\ unique2 = <<>>

\* C20: in msa_ps_sites.compare_phospho_sites, when filtering by the cutoff
\* and converting to alignment columns leave no site for either sequence,
\* the next step raises ValueError; find_common_sites_msa and save_to_tsv
\* run only when some mapped site remains, and after the error the matcher
\* has not been entered and no output file has been written.
C20_NoComparableData ==
    /\ [](pc \in {"msa_index", "msa_scan", "msa_done", "cmp_saved"} =>
             ~(mapped1 = <<>> /\ mapped2 = <<>>))
    /\ [](written => ~(mapped1 = <<>> /\ mapped2 = <<>>))
    /\ [](pc = "cmp_error" => error # "none" /\ ~written /\ MatcherNotEntered)
    /\ [][(pc = "cmp_check" /\ mapped1 = <<>> /\ mapped2 = <<>>) =>
             (pc' = "cmp_error" /\ error' = NoSitesRemainError /\ ~written')]_vars

\* the TSV held a site with a score above the cutoff, but no raw position of
\* the two sequences' sites has a column, and the call ended with the error
C20_Witness ==
    /\ pc = "cmp_error"
    /\ error = NoSitesRemainError
    /\ raw_sites1 # <<>>
    /\ mapped1 = <<>> /\ mapped2 = <<>>
    /\ ~written

\* C21: in ps_sites.compare_phospho_sites, when the TSV held sites for the
\* headers but no site of either sequence passes the cutoff, the call ends
\* with an error: find_common_sites does not return and no report is written.
C21_RawNothingToCompare ==
    (sites1 = <<>> /\ sites2 = <<>> /\ (site_dict1 # <<>> \/ site_dict2 # <<>>)) =>
        /\ pc \notin {"raw_done", "rawcmp_saved"}
        /\ ~written

ErrorStates == {"domcmp_error", "rawcmp_error", "cmp_error"}

\* C22: each of compare_domains, ps_sites.compare_phospho_sites and
\* msa_ps_sites.compare_phospho_sites, called with a header list that does
\* not hold exactly two elements, raises ValueError as its first step: the
\* call is at its entry or has ended with that error, no input file has been
\* read and no output file has been written.
C22_HeaderCountFailFast ==
    /\ headers_len # 2 =>
          /\ pc \in {"domcmp_entry", "rawcmp_entry", "cmp_entry"} \cup ErrorStates
          /\ pc \in ErrorStates => error = TwoHeadersError
          /\ files_read = {}
          /\ ~written
    /\ error = TwoHeadersError => headers_len # 2

\* the alignment-mode entry point refused a list of three headers
C22_Witness ==
    /\ pc = "cmp_error"
    /\ headers_len = 3
    /\ error = TwoHeadersError
    /\ files_read = {}

\* C23: in compare_domains, when the TSV holds domains for one of the two
\* headers and none for the other, the call ends with an error:
\* find_common_domains and summarize_distances do not return and no report
\* is written.
C23_MissingIdentifier ==
    ((domain_dict1 = <<>>) # (domain_dict2 = <<>>)) =>
        /\ pc \notin {"sum_done", "domcmp_saved"}
        /\ ~written

\* C24: find_common_domains, find_common_sites and find_common_sites_msa
\* never change their two argument lists, and a second call on the same two
\* lists returns what the first call returned.
C24_MatcherPurity ==
    /\ <<domains1, domains2, sites1, sites2, mapped1, mapped2>> = args0
    /\ (call_no = 2 /\ MatcherReturned) => <<common, unique1, unique2>> = first_result

\* the second call of find_common_sites has returned, after a first call
\* that removed a matched site from unique2
C24_Witness ==
    /\ call_no = 2
    /\ pc = "raw_done"
    /\ Len(common) > 0
    /\ Len(unique2) < Len(sites2)
    /\ Len(unique2) > 0

\* C25: download_reference_proteome_for_upids calls download_gz_fasta once
\* for each UPID, in list order; the file of the i-th call is named
\* '<prefixes[i]>_ref_proteome.fasta' when prefixes holds an i-th element and
\* '<upid>_ref_proteome.fasta' otherwise.
C25_OneCallPerUpid ==
    pc = "dl_done" =>
        /\ Len(dl_calls) = Len(upids)
        /\ \A i \in 1..Len(dl_calls) :
              LET name == IF prefixes # {} /\ i <= Len(Given(prefixes))
                          THEN Given(prefixes)[i] ELSE upids[i]
              IN /\ dl_calls[i][1] = upids[i]
                 /\ SubSeq(dl_calls[i][2], 2, 3) = <<name, "_ref_proteome.fasta">>

\* C26: a call of download_gz_fasta whose output file exists at entry issues
\* no HTTP request, creates or removes no file and leaves the file system as
\* it found it; a call that ends after a successful download and extraction
\* leaves the output file and no '<output>.gz' file.
C26_SkipExistingOutput ==
    /\ (dl_outcome # "none" /\ output_path \in files_at_entry) =>
          /\ http_in_call = 0
          /\ touched = {}
          /\ files = files_at_entry
          /\ dl_outcome \in {"running", "skipped"}
    /\ dl_outcome = "skipped" => output_path \in files_at_entry
    /\ dl_outcome = "saved" =>
          /\ GzPath(output_path) \notin files
          /\ output_path \in files
          /\ http_in_call = 1

\* one call found its output and returned at once, with the stale '.gz'
\* file beside it left alone
C26_Witness ==
    /\ pc = "dl_loop"
    /\ dl_outcome = "skipped"
    /\ GzPath(output_path) \in files

\* a call downloaded, extracted and removed its '.gz' file
C26_WitnessSaved ==
    /\ pc = "dl_loop"
    /\ dl_outcome = "saved"
    /\ touched = {output_path, GzPath(output_path)}

\* the last poll's outcome, as C27 names the outcomes; a body that decodes
\* to something other than an object with an object (or nothing) under
\* "info" is none of them
PollOutcome ==
    IF reply = <<>> THEN "none"
    ELSE IF reply[1] = "fail" THEN "HTTP failure"
    ELSE IF reply[2][1] = "undecodable" THEN "undecodable body"
    ELSE IF reply[2][1] \in {"not_object", "info_not_object"} THEN "no object"
    ELSE IF reply[2][1] = "no_info" \/ reply[2][2] = "" THEN "missing status"
    ELSE IF reply[2][2] \in {"RUNNING", "COMPLETE", "ERROR"} THEN reply[2][2]
    ELSE "other status"

PollEnded == pc \in {"poll_returned", "poll_raised"}

C27_AlwaysEnds == <>PollEnded

\* a row the claim calls well-formed: four columns or more, an integer
\* position, a numeric score and a residue of the allowed set
WellFormedRow(row) ==
    /\ Len(row) >= 4
    /\ row[2] \in {"5", " 3 ", "6", "7", "8"}
    /\ row[4] \in {"0.9", "5e-1", "1"}
    /\ Upper(row[3]) \in AllowedResidues(tsv_name)

\* the indices of the well-formed rows for header h among the first n rows
WellFormedFor(h, n) ==
    {r \in 1..n : WellFormedRow(tsv_rows[r]) /\ tsv_rows[r][1][Len(tsv_rows[r][1])] = h}

\* what extract_sites holds for header h
SitesOf(h) ==
    IF DictHas(ext_results, h) THEN DictGet(ext_results, h) ELSE <<>>

\* C28: extract_sites skips a row with fewer than four columns, a
\* non-integer position, a non-numeric score or a residue outside the allowed
\* set without raising and reads on: after n rows the list of a requested
\* header holds one site for each of its well-formed rows among them, in file
\* order, whatever rows lie between; only a file without any such row makes
\* the raw-mode copy raise, after the last row.
C28_RowTolerance ==
    pc \in {"ext_loop", "ext_returned", "ext_raised"} /\ ext_error # "FileNotFoundError" =>
        /\ \A n \in 1..Len(ReqHeaders) :
              LET h == ReqHeaders[n]
                  ks == WellFormedFor(h, ri - 1)
              IN /\ Len(SitesOf(h)) = Cardinality(ks)
                 /\ \A m \in 1..Len(SitesOf(h)) :
                       \E r \in ks :
                          /\ Cardinality({q \in ks : q <= r}) = m
                          /\ SitesOf(h)[m] = <<IntTable[tsv_rows[r][2]],
                                               Upper(tsv_rows[r][3]),
                                               FloatTable[tsv_rows[r][4]]>>
        /\ pc = "ext_loop" => ext_error = "none"
        /\ pc = "ext_returned" => ext_error = "none" /\ ri = Len(tsv_rows) + 1
        /\ pc = "ext_raised" =>
              /\ ext_error = "ValueError"
              /\ ext_copy = "raw"
              /\ ri = Len(tsv_rows) + 1
              /\ \A n \in 1..Len(ReqHeaders) : WellFormedFor(ReqHeaders[n], Len(tsv_rows)) = {}

\* the first two rows were skipped, one short and one with a bad position,
\* and the well-formed row after them was extracted
C28_Witness ==
    /\ pc = "ext_returned"
    /\ Len(tsv_rows) = 3
    /\ Len(tsv_rows[1]) < 4
    /\ tsv_rows[2][2] = "2.5"
    /\ SitesOf("A") = <<<<3, "Y", 5>>>>

\* list_B holds no two identical tuples
NoTwinsB ==
    \A a, b \in 1..Len(domains2) : a # b => domains2[a] # domains2[b]

Labelled(ds, L) == {n \in 1..Len(ds) : ds[n][2] = L}

\* C29: when list_B holds no two identical tuples and find_common_domains has
\* returned, the number of common records of each label is the smaller of the
\* numbers of list_A and of list_B annotations with that label, and no
\* annotation of unique_A has the label of an annotation of unique_B.
C29_MaximalPerLabel ==
    (DomReturned /\ NoTwinsB) =>
        /\ \A L \in {x[2] : x \in DomainPool} :
              Cardinality({n \in 1..Len(common) : common[n][1] = L}) =
                  Min(Cardinality(Labelled(domains1, L)), Cardinality(Labelled(domains2, L)))
        /\ \A a \in 1..Len(unique1) : \A b \in 1..Len(unique2) :
              unique1[a][2] # unique2[b][2]

\* two annotations of a label in list_A met three of it in list_B: two
\* records, and the third annotation of list_B left over
C29_Witness ==
    /\ DomReturned
    /\ NoTwinsB
    /\ \E L \in {x[2] : x \in DomainPool} :
          /\ Cardinality(Labelled(domains1, L)) = 2
          /\ Cardinality(Labelled(domains2, L)) = 3
          /\ Cardinality({n \in 1..Len(common) : common[n][1] = L}) = 2
          /\ Len(unique2) = 1

SubEnded == pc \in {"sub_returned", "sub_raised"}

\* C30: when submit_alignment has returned a ticket or raised RuntimeError,
\* none of the file objects it opened is still open.
C30_HandlesReleased ==
    SubEnded => handles = {}

\* the same on the exits after both files were opened: the HTTP failure, the
\* empty ticket and the return
C30_ReleasedAfterPost ==
    (SubEnded /\ opened = {"f1", "f2"}) => handles = {}
=============================================================================
